---- MODULE Spec2Model ----
(***************************************************************************)
(* Content-acquisition pipeline of the lurl archival backend.              *)
(*                                                                         *)
(*   server/lurl.js (second module, lines 678-3017): record store,         *)
(*     POST /capture, direct downloader downloadFile, POST /api/upload     *)
(*     (single and chunked), DELETE /api/records/:id, POST /api/retry/:id  *)
(*   server/_lurl-retry.js: browser-context bypass engine                  *)
(*     (initBrowser, closeBrowser, downloadInPageContext, batchRetry)      *)
(*   Quota-Gated Recovery Service: not part of the sources above, modelled *)
(*     from its procedure in the specification                             *)
(*                                                                         *)
(* Node runs every handler on one event loop: a handler runs without       *)
(* interruption between two awaits, so each action below is the code       *)
(* between two suspension points.                                          *)
(***************************************************************************)
EXTENDS Integers, Sequences, FiniteSets, TLC

(* ------------------------------ bounds -------------------------------- *)

\* HTTP requests sent in one behaviour
MaxReq == 3
\* requests sent to the acquisition endpoints in one behaviour
MaxAcq == 2
\* largest value Date.now() returns (the clock starts at 0)
MaxClock == 1
\* upload requests suspended on their body at one time
MaxInFlight == 2
\* retryRecord calls made outside a batch
MaxCalls == 1
\* records handed to one batchRetry call
MaxBatch == 3
\* requests (recoveries and deletions) sent to a store with a quota ledger
MaxRecover == 4
\* largest declared x-total-chunks; chunk indices range over 0..MaxChunks
MaxChunks == 2

(* ------------------------------ inputs -------------------------------- *)

\* an absent id, an absent header or response field
NoId == 0 - 1
NoHdr == 0 - 1

\* share-page urls a producer submits ("" is a missing field)
P1 == "https://lurl.cc/p1"
P2 == "https://myppt.cc/p2"
PageUrls == {P1, P2}

\* CDN urls a producer submits; FBad is a string new URL() rejects
F1 == "https://cdn.lurl.cc/a.mp4"
F2 == "https://cdn.myppt.cc/b.png"
FBad == "not-a-url"

\* titles are strings, kept as sequences of characters (<<>> is missing)
Titles == {<<"/", "a">>}

Types == {"video", "image"}
CookieVals == {"", "sid=1"}

\* upload payloads (<<>> is an empty body); the body the CDN serves
Payloads == {<<1>>, <<2>>}
CdnBody == <<7>>

VARIABLES
  now,        \* the value Date.now() returned last
  dirsMade,   \* DATA_DIR, videos/ and images/ exist (ensureDirs has run)
  records,    \* records.jsonl: the sequence of stored records
  files,      \* files under DATA_DIR: backupPath -> content (present files only)
  chunks,     \* DATA_DIR/chunks/<id>/chunk_<i>: id -> (index -> payload)
  capPending, \* POST /capture requests suspended in parseBody
  up,         \* POST /api/upload requests suspended reading their body
  dl,         \* running downloadFile calls
  budget,     \* requests the clients will still send in this behaviour
  last,       \* the last response sent
  lastDl,     \* how the downloadFile call that returned last ended: "ok", "failed"
  browser,    \* _lurl-retry.js `let browser`: 0 is null, n > 0 the n-th launched instance
  launched,   \* browser instances launched so far
  alive,      \* launched instances that have not been closed
  att,        \* downloadInPageContext calls, in call order
  batch,      \* the batchRetry call
  quota,      \* the quota ledger: visitorId -> usedCount, freeQuota, paidQuota, history
  lastRec     \* the last answer of the Recovery Service

\* the state of server/lurl.js and the state of server/_lurl-retry.js
svars == <<now, dirsMade, records, files, chunks, capPending, up, dl, budget, last, lastDl>>
bvars == <<browser, launched, alive, att, batch>>
\* the state of the Recovery Service
qvars == <<quota, lastRec>>
vars == <<svars, bvars, qvars>>

(* ----------------------------- utilities ------------------------------ *)

Range(s) == {s[i] : i \in DOMAIN s}

RECURSIVE SeqFilter(_, _)
SeqFilter(s, keep) ==
  IF s = <<>> THEN <<>>
  ELSE (IF Head(s) \in keep THEN <<Head(s)>> ELSE <<>>) \o SeqFilter(Tail(s), keep)

RemoveAt(s, i) == SubSeq(s, 1, i - 1) \o SubSeq(s, i + 1, Len(s))

\* an existence check that drops the folder of the path: DATA_DIR/<filename>
ExistsFlat(path) == <<"", path[2]>> \in DOMAIN files

\* fs.existsSync(path.join(DATA_DIR, path))
Exists(path) == path \in DOMAIN files

\* the function f with key k bound to v (k added when new)
Put(f, k, v) == [x \in DOMAIN f \cup {k} |-> IF x = k THEN v ELSE f[x]]

\* the function f without key k
Drop(f, k) == [x \in DOMAIN f \ {k} |-> f[x]]

(* -------------------------- sanitizeFilename -------------------------- *)

WordChars == {"a", "b", "u", "n", "t", "i", "l", "e", "d", ".", "-", "_"}
Reserved == {"/", "\\", ":", "*", "?", "<", ">", "|"}
Untitled == <<"u", "n", "t", "i", "t", "l", "e", "d">>

\* [/\\:*?"<>|] -> "_" and whitespace -> "_" (a run of blanks gives a run of "_",
\* which the later /_+/ replacement merges like the single "_" of /\s+/)
RECURSIVE MapReserved(_)
MapReserved(s) ==
  IF s = <<>> THEN <<>>
  ELSE <<IF Head(s) \in Reserved \cup {" "} THEN "_" ELSE Head(s)>> \o MapReserved(Tail(s))

\* /_+/g -> "_"
RECURSIVE Collapse(_)
Collapse(s) ==
  IF Len(s) < 2 THEN s
  ELSE IF s[1] = "_" /\ s[2] = "_" THEN Collapse(Tail(s))
  ELSE <<s[1]>> \o Collapse(Tail(s))

\* /^_|_$/g -> ""
StripEnds(s) ==
  LET a == IF s # <<>> /\ Head(s) = "_" THEN Tail(s) ELSE s
  IN IF a # <<>> /\ a[Len(a)] = "_" THEN SubSeq(a, 1, Len(a) - 1) ELSE a

sanitizeFilename(filename) ==
  LET s == StripEnds(Collapse(SeqFilter(MapReserved(filename), WordChars)))
      c == SubSeq(s, 1, IF Len(s) < 200 THEN Len(s) ELSE 200)
  IN IF c = <<>> THEN Untitled ELSE c

(* ------------------------------- paths -------------------------------- *)

\* new URL(fileUrl) throws on a string that is no URL
UrlValid(u) == u \in {F1, F2}

\* path.extname(new URL(fileUrl).pathname).toLowerCase()
UrlExtname(u) == IF u = F1 THEN ".mp4" ELSE IF u = F2 THEN ".png" ELSE ""

DefaultExt(type) == IF type = "video" THEN ".mp4" ELSE ".jpg"

FileExt(fileUrl, type) ==
  LET urlExt == IF UrlExtname(fileUrl) = "" THEN DefaultExt(type) ELSE UrlExtname(fileUrl)
  IN IF urlExt \in {".mp4", ".mov", ".webm", ".avi"} THEN urlExt ELSE DefaultExt(type)

Folder(type) == IF type = "video" THEN "videos" ELSE "images"

\* `${safeTitle}_${id}${ext}`
Filename(title, id, ext) == <<sanitizeFilename(title), id, ext>>

\* `${folder}/${filename}`, read relative to DATA_DIR
BackupPathOf(type, filename) == <<Folder(type), filename>>

\* a target that is always under VIDEOS_DIR
TargetPathVideos(type, filename) == <<"videos", filename>>

\* path.join(targetDir, filename) with targetDir = VIDEOS_DIR or IMAGES_DIR,
\* that is DATA_DIR/videos or DATA_DIR/images
TargetPath(type, filename) == <<IF type = "video" THEN "videos" ELSE "images", filename>>

\* path.basename(record.backupPath)
Basename(backupPath) == backupPath[2]

(* ---------------------------- record store ---------------------------- *)

\* the lookup of the older handler (lurl.js:310), which compares fileUrl
FindByFileUrl(recs, pageUrl) ==
  LET hits == {i \in DOMAIN recs : recs[i].fileUrl = pageUrl}
  IN IF hits = {} THEN 0 ELSE CHOOSE i \in hits : \A j \in hits : i <= j

\* existingRecords.find(r => r.pageUrl === pageUrl): index of the first match, 0 if none
FindByPageUrl(recs, pageUrl) ==
  LET hits == {i \in DOMAIN recs : recs[i].pageUrl = pageUrl}
  IN IF hits = {} THEN 0 ELSE CHOOSE i \in hits : \A j \in hits : i <= j

\* records.find(r => r.id === id)
FindById(recs, id) ==
  LET hits == {i \in DOMAIN recs : recs[i].id = id}
  IN IF hits = {} THEN 0 ELSE CHOOSE i \in hits : \A j \in hits : i <= j

updateRecordFileUrl(recs, id, newFileUrl) ==
  [i \in DOMAIN recs |->
     IF recs[i].id = id THEN [recs[i] EXCEPT !.fileUrl = newFileUrl] ELSE recs[i]]

(* ------------------- records.jsonl as text: readAllRecords ------------ *)

\* largest number of pieces of text in a log that is read as text
MaxLog == 4

\* the records whose lines the log holds
LogRecords ==
  {[id |-> i, title |-> <<"a">>, pageUrl |-> IF i = 1 THEN P1 ELSE P2, fileUrl |-> F1, type |-> "video",
    backupPath |-> <<"videos", <<<<"a">>, i, ".mp4">>>>] : i \in {1, 2}}

\* the pieces a log is made of: a line feed, a blank, JSON.stringify(record),
\* and the text of a record cut short (a write that did not complete)
Pieces ==
  {[t |-> "nl", v |-> <<>>], [t |-> "sp", v |-> <<>>], [t |-> "cut", v |-> <<>>]}
  \cup {[t |-> "json", v |-> <<r>>] : r \in LogRecords}

IsSpace(p) == p.t \in {"nl", "sp"}

\* String.prototype.trim
RECURSIVE TrimStart(_)
TrimStart(c) == IF c # <<>> /\ IsSpace(Head(c)) THEN TrimStart(Tail(c)) ELSE c
RECURSIVE TrimEnd(_)
TrimEnd(c) ==
  IF c # <<>> /\ IsSpace(c[Len(c)]) THEN TrimEnd(SubSeq(c, 1, Len(c) - 1)) ELSE c
Trim(c) == TrimEnd(TrimStart(c))

\* content.split('\n'): the text between the line feeds, empty strings included
RECURSIVE Split(_, _)
Split(c, cur) ==
  IF c = <<>> THEN <<cur>>
  ELSE IF Head(c).t = "nl" THEN <<cur>> \o Split(Tail(c), <<>>)
  ELSE Split(Tail(c), Append(cur, Head(c)))

\* JSON.parse(line) returns: the line is one JSON text with blanks around it
Parses(line) ==
  /\ Cardinality({i \in DOMAIN line : line[i].t = "json"}) = 1
  /\ \A i \in DOMAIN line : line[i].t \in {"json", "sp"}

\* JSON.parse(line) of a line that parses
JsonParse(line) == line[CHOOSE i \in DOMAIN line : line[i].t = "json"].v[1]

\* .map(line => { try { return JSON.parse(line) } catch { return null } }).filter(Boolean)
RECURSIVE ParseLines(_)
ParseLines(lines) ==
  IF lines = <<>> THEN <<>>
  ELSE (IF Parses(Head(lines)) THEN <<JsonParse(Head(lines))>> ELSE <<>>)
       \o ParseLines(Tail(lines))

\* variant: the lines are parsed up to the first one that JSON.parse rejects
RECURSIVE ParseLinesUntilBad(_)
ParseLinesUntilBad(lines) ==
  IF lines = <<>> \/ ~Parses(Head(lines)) THEN <<>>
  ELSE <<JsonParse(Head(lines))>> \o ParseLinesUntilBad(Tail(lines))

\* .filter(Boolean) on the lines: the empty strings go
NonEmpty(lines) == SelectSeq(lines, LAMBDA l : l # <<>>)

\* a log file: NoLog when RECORDS_FILE does not exist
NoLog == [present |-> FALSE, text |-> <<>>]

\* variant: no try block around JSON.parse, the lines before the bad one returned
readAllRecordsUntilBad(log) ==
  IF ~log.present THEN <<>>
  ELSE ParseLinesUntilBad(NonEmpty(Split(Trim(log.text), <<>>)))

readAllRecords(log) ==
  IF ~log.present THEN <<>>
  ELSE ParseLines(NonEmpty(Split(Trim(log.text), <<>>)))

\* appendRecord(record): fs.appendFileSync(RECORDS_FILE, JSON.stringify(record) + '\n')
appendRecord(log, record) ==
  [present |-> TRUE, text |-> log.text \o <<[t |-> "json", v |-> <<record>>], [t |-> "nl", v |-> <<>>]>>]

\* a caller reads the log
ReadLog ==
  /\ dirsMade' = TRUE
  /\ last' = [op |-> "readAllRecords", result |-> readAllRecords(records)]
  /\ UNCHANGED <<now, records, files, chunks, capPending, up, dl, budget, lastDl, bvars, qvars>>

\* a record is appended to the log
AppendLog(record) ==
  /\ budget > 0
  /\ budget' = budget - 1
  /\ dirsMade' = TRUE
  /\ records' = appendRecord(records, record)
  /\ UNCHANGED <<now, files, chunks, capPending, up, dl, last, lastDl, bvars, qvars>>

(* ------------------------------ responses ----------------------------- *)

\* res.writeHead(status); res.end(JSON.stringify({ok, ...})): absent fields are
\* FALSE, NoId or NoHdr
Resp(op, status, ok) ==
  [op |-> op, status |-> status, ok |-> ok,
   duplicate |-> FALSE, existingId |-> NoId, id |-> NoId, needUpload |-> FALSE,
   chunk |-> NoHdr, total |-> NoHdr, size |-> NoHdr]

(* --------------------------- direct downloader ------------------------ *)

\* let baseReferer = 'https://lurl.cc/'; if (url.includes('myppt.cc')) ...
BaseReferer(url) == IF url = F2 THEN "https://myppt.cc/" ELSE "https://lurl.cc/"

\* a strategy list that tries the page referer before the bare CDN referer
StrategiesPageFirst(url, pageUrl, cookies) ==
  (IF cookies # "" THEN <<[referer |-> BaseReferer(url), cookie |-> cookies, name |-> "cookie+referer"]>>
   ELSE <<>>)
  \o (IF pageUrl # "" THEN <<[referer |-> pageUrl, cookie |-> "", name |-> "pageUrl-referer"]>>
      ELSE <<>>)
  \o <<[referer |-> BaseReferer(url), cookie |-> "", name |-> "referer-only"]>>

\* the ordered strategy list downloadFile builds
Strategies(url, pageUrl, cookies) ==
  (IF cookies # "" THEN <<[referer |-> BaseReferer(url), cookie |-> cookies, name |-> "cookie+referer"]>>
   ELSE <<>>)
  \o <<[referer |-> BaseReferer(url), cookie |-> "", name |-> "referer-only"]>>
  \o (IF pageUrl # "" THEN <<[referer |-> pageUrl, cookie |-> "", name |-> "pageUrl-referer"]>>
      ELSE <<>>)

\* a downloadFile call that has issued the fetch of its first strategy
NewDownload(rec, url, destPath, pageUrl, cookies, origin) ==
  [rec |-> rec, url |-> url, dest |-> destPath, pageUrl |-> pageUrl, cookies |-> cookies,
   strategies |-> Strategies(url, pageUrl, cookies), k |-> 1,
   phase |-> "fetch", pos |-> 0, attached |-> FALSE,
   tried |-> <<Strategies(url, pageUrl, cookies)[1]>>,
   absentBefore |-> ~Exists(destPath), deleted |-> FALSE, origin |-> origin]

(* ------------------------------ capture ------------------------------- *)

\* request bodies of POST /capture that parse as a JSON object ("" and <<>> are
\* missing fields): two pages and two CDN urls of one type, and one page whose
\* captures vary in type and in the validity of the url
StoreBodies ==
  [title : Titles \cup {<<>>}, pageUrl : PageUrls \cup {""},
   fileUrl : {F1, F2, ""}, type : {"video"}, cookies : {""}]
AcqBodies ==
  [title : Titles, pageUrl : {P1}, fileUrl : {F1, FBad, ""}, type : Types, cookies : {""}]

\* a validation that looks at the title and the page only
MissingTitleOrPage(b) == b.title = <<>> \/ b.pageUrl = ""

\* if (!title || !pageUrl || !fileUrl)
MissingField(b) == b.title = <<>> \/ b.pageUrl = "" \/ b.fileUrl = ""

CaptureArrive ==
  /\ budget > 0
  /\ budget' = budget - 1
  /\ capPending' = capPending + 1
  /\ UNCHANGED <<now, dirsMade, records, files, chunks, up, dl, last, lastDl, bvars, qvars>>

\* parseBody rejected: the catch block answers 500
CaptureBadJson ==
  /\ capPending > 0
  /\ capPending' = capPending - 1
  /\ last' = Resp("capture", 500, FALSE)
  /\ UNCHANGED <<now, dirsMade, records, files, chunks, up, dl, budget, lastDl, bvars, qvars>>

CaptureInvalid(b) ==
  /\ capPending > 0
  /\ MissingField(b)
  /\ capPending' = capPending - 1
  /\ last' = Resp("capture", 400, FALSE)
  /\ UNCHANGED <<now, dirsMade, records, files, chunks, up, dl, budget, lastDl, bvars, qvars>>

CaptureDuplicate(b) ==
  LET i == FindByPageUrl(records, b.pageUrl)
      duplicate == records[i]
  IN /\ capPending > 0
     /\ ~MissingField(b)
     /\ i # 0
     /\ capPending' = capPending - 1
     /\ dirsMade' = TRUE
     /\ IF Exists(duplicate.backupPath)
        THEN /\ last' = [Resp("capture", 200, TRUE) EXCEPT
                           !.duplicate = TRUE, !.existingId = duplicate.id]
             /\ UNCHANGED records
        ELSE /\ records' = IF duplicate.fileUrl # b.fileUrl
                           THEN updateRecordFileUrl(records, duplicate.id, b.fileUrl)
                           ELSE records
             /\ last' = [Resp("capture", 200, TRUE) EXCEPT
                           !.duplicate = TRUE, !.id = duplicate.id, !.needUpload = TRUE]
     /\ UNCHANGED <<now, files, chunks, up, dl, budget, lastDl, bvars, qvars>>

\* the record POST /capture appends for body b when Date.now() returns t
NewRecord(b, t) ==
  [id |-> t, title |-> b.title, pageUrl |-> b.pageUrl, fileUrl |-> b.fileUrl, type |-> b.type,
   backupPath |-> BackupPathOf(b.type, Filename(b.title, t, FileExt(b.fileUrl, b.type)))]

\* Date.now() has not moved since it was read last (the same millisecond), or it has
ClockReads == {t \in {now, now + 1} : t <= MaxClock}

CaptureNew(b, t) ==
  LET id == t
      filename == Filename(b.title, id, FileExt(b.fileUrl, b.type))
      record == NewRecord(b, t)
  IN /\ capPending > 0
     /\ ~MissingField(b)
     /\ FindByPageUrl(records, b.pageUrl) = 0
     /\ capPending' = capPending - 1
     /\ dirsMade' = TRUE
     /\ now' = t
     /\ IF ~UrlValid(b.fileUrl)
        THEN \* new URL(fileUrl) throws: the catch block answers 500
             /\ last' = Resp("capture", 500, FALSE)
             /\ UNCHANGED <<records, dl, qvars>>
        ELSE /\ records' = Append(records, record)
             /\ dl' = Append(dl, NewDownload(record, b.fileUrl, TargetPath(b.type, filename),
                                             b.pageUrl, b.cookies, "capture"))
             /\ last' = [Resp("capture", 200, TRUE) EXCEPT !.id = id, !.needUpload = TRUE]
     /\ UNCHANGED <<files, chunks, up, budget, lastDl, bvars, qvars>>

Capture(bodies) ==
  \/ CaptureBadJson
  \/ \E b \in bodies :
       CaptureInvalid(b) \/ CaptureDuplicate(b) \/ \E t \in ClockReads : CaptureNew(b, t)


(* ------------------------- downloadFile: steps ------------------------ *)

\* fs.write at the descriptor's own offset: bytes past the end of a file that
\* was truncated meanwhile are zero-filled
WriteAt(content, pos, byte) ==
  LET n == IF Len(content) > pos THEN Len(content) ELSE pos + 1
  IN [i \in 1..n |-> IF i = pos + 1 THEN byte
                     ELSE IF i <= Len(content) THEN content[i] ELSE 0]

\* downloadFile returns: the caller's continuation runs (capture logs, retry answers)
DlReturn(i, result) ==
  /\ dl' = RemoveAt(dl, i)
  /\ lastDl' = IF result THEN "ok" ELSE "failed"
  /\ last' = IF dl[i].origin = "retry" THEN Resp("retry", 200, result) ELSE last

\* the strategy failed: `continue` or the catch block, then the next strategy's
\* fetch is issued, or the loop ends and downloadFile returns false
DlNextStrategy(i) ==
  IF dl[i].k < Len(dl[i].strategies)
  THEN /\ dl' = [dl EXCEPT ![i].k = @ + 1, ![i].phase = "fetch", ![i].pos = 0,
                           ![i].attached = FALSE,
                           ![i].tried = Append(@, dl[i].strategies[dl[i].k + 1])]
       /\ UNCHANGED <<last, lastDl, qvars>>
  ELSE DlReturn(i, FALSE)

\* fetch rejected (network error) or !response.ok
DlFetchFail(i) ==
  /\ dl[i].phase = "fetch"
  /\ UNCHANGED <<now, dirsMade, records, files, chunks, capPending, up, budget, bvars, qvars>>
  /\ DlNextStrategy(i)

\* response.ok (fetch rejects a string that is no URL): fs.createWriteStream(destPath)
\* and pipeline(...) are called and the stream's open(destPath, 'w') completes,
\* which creates or truncates the file.
\* (Between the call and the completion of the open the download touches nothing,
\* so the two are one step.)
DlFetchOk(i) ==
  /\ dl[i].phase = "fetch"
  /\ UrlValid(dl[i].url)
  /\ files' = Put(files, dl[i].dest, <<>>)
  /\ dl' = [dl EXCEPT ![i].phase = "stream", ![i].attached = TRUE]
  /\ UNCHANGED <<now, dirsMade, records, chunks, capPending, up, budget, last, lastDl, bvars, qvars>>

\* one piece of the body is written through the open descriptor (to the unlinked
\* inode when the path was removed meanwhile)
DlWrite(i) ==
  /\ dl[i].phase = "stream"
  /\ dl[i].pos < Len(CdnBody)
  /\ files' = IF dl[i].attached
              THEN Put(files, dl[i].dest,
                       WriteAt(files[dl[i].dest], dl[i].pos, CdnBody[dl[i].pos + 1]))
              ELSE files
  /\ dl' = [dl EXCEPT ![i].pos = @ + 1]
  /\ UNCHANGED <<now, dirsMade, records, chunks, capPending, up, budget, last, lastDl, bvars, qvars>>

\* the body stream fails while it is piped to disk: pipeline rejects, the catch
\* block logs and the loop goes on; nothing removes the file
DlStreamError(i) ==
  /\ dl[i].phase = "stream"
  /\ dl[i].pos < Len(CdnBody)
  /\ UNCHANGED <<now, dirsMade, records, files, chunks, capPending, up, budget, bvars, qvars>>
  /\ DlNextStrategy(i)

\* pipeline resolves: return true
DlDone(i) ==
  /\ dl[i].phase = "stream"
  /\ dl[i].pos = Len(CdnBody)
  /\ UNCHANGED <<now, dirsMade, records, files, chunks, capPending, up, budget, bvars, qvars>>
  /\ DlReturn(i, TRUE)

Download ==
  \/ \E i \in DOMAIN dl : DlFetchFail(i)
  \/ \E i \in DOMAIN dl : DlFetchOk(i)
  \/ \E i \in DOMAIN dl : DlWrite(i)
  \/ \E i \in DOMAIN dl : DlStreamError(i)
  \/ \E i \in DOMAIN dl : DlDone(i)

(* ------------------------- POST /api/retry/:id ------------------------ *)

IdInputs == 0..MaxClock

RetryUnknown(id) ==
  /\ budget > 0
  /\ FindById(records, id) = 0
  /\ budget' = budget - 1
  /\ dirsMade' = TRUE
  /\ last' = Resp("retry", 404, FALSE)
  /\ UNCHANGED <<now, records, files, chunks, capPending, up, dl, lastDl, bvars, qvars>>

\* const success = await downloadFile(record.fileUrl, localFilePath, record.pageUrl)
RetryStart(id) ==
  LET record == records[FindById(records, id)]
  IN /\ budget > 0
     /\ FindById(records, id) # 0
     /\ budget' = budget - 1
     /\ dirsMade' = TRUE
     /\ dl' = Append(dl, NewDownload(record, record.fileUrl, record.backupPath,
                                     record.pageUrl, "", "retry"))
     /\ UNCHANGED <<now, records, files, chunks, capPending, up, last, lastDl, bvars, qvars>>

Retry == \E id \in IdInputs : RetryUnknown(id) \/ RetryStart(id)

(* ---------------------- DELETE /api/records/:id ----------------------- *)

DeleteUnknown(id) ==
  /\ budget > 0
  /\ FindById(records, id) = 0
  /\ budget' = budget - 1
  /\ dirsMade' = TRUE
  /\ last' = Resp("delete", 404, FALSE)
  /\ UNCHANGED <<now, records, files, chunks, capPending, up, dl, lastDl, bvars, qvars>>

\* variant: only the record found is filtered out (records.filter(r => r !== record))
DeleteRecordFound(id) ==
  LET record == records[FindById(records, id)]
  IN /\ budget > 0
     /\ FindById(records, id) # 0
     /\ budget' = budget - 1
     /\ dirsMade' = TRUE
     /\ files' = Drop(files, record.backupPath)
     /\ records' = [i \in 1..(Len(records) - 1) |->
                      IF i < FindById(records, id) THEN records[i] ELSE records[i + 1]]
     /\ dl' = [i \in DOMAIN dl |->
                 [dl[i] EXCEPT
                    !.attached = @ /\ dl[i].dest # record.backupPath,
                    !.deleted = @ \/ dl[i].rec.id = id]]
     /\ att' = [a \in DOMAIN att |-> [att[a] EXCEPT !.deleted = @ \/ att[a].rec.id = id]]
     /\ last' = Resp("delete", 200, TRUE)
     /\ UNCHANGED <<now, chunks, capPending, up, lastDl, browser, launched, alive, batch, qvars>>

DeleteRecord(id) ==
  LET record == records[FindById(records, id)]
  IN /\ budget > 0
     /\ FindById(records, id) # 0
     /\ budget' = budget - 1
     /\ dirsMade' = TRUE
     /\ files' = Drop(files, record.backupPath)
     /\ records' = SeqFilter(records, {r \in Range(records) : r.id # id})
     \* a stream open on the unlinked path keeps writing to the unlinked inode
     /\ dl' = [i \in DOMAIN dl |->
                 [dl[i] EXCEPT
                    !.attached = @ /\ dl[i].dest # record.backupPath,
                    !.deleted = @ \/ dl[i].rec.id = id]]
     /\ att' = [a \in DOMAIN att |-> [att[a] EXCEPT !.deleted = @ \/ att[a].rec.id = id]]
     /\ last' = Resp("delete", 200, TRUE)
     /\ UNCHANGED <<now, chunks, capPending, up, lastDl, browser, launched, alive, batch, qvars>>

Delete == \E id \in IdInputs : DeleteUnknown(id) \/ DeleteRecord(id)

(* -------------------------- GET /api/records -------------------------- *)

\* readAllRecords().reverse(): the newest record first
Reverse(s) == [i \in 1..Len(s) |-> s[Len(s) + 1 - i]]

\* query.type as sent ("" is absent)
TypeQueries == {"", "all"} \cup Types
\* query.q as sent ("" is absent)
SearchTerms == {"", "LURL", "myppt"}

\* q.toLowerCase()
ToLowerCase(q) == IF q = "LURL" THEN "lurl" ELSE q

\* r.pageUrl.toLowerCase().includes(searchTerm) for a term of SearchTerms: a
\* share-page url holds the name of its host
Includes(pageUrl, searchTerm) ==
  \/ pageUrl = P1 /\ searchTerm = "lurl"
  \/ pageUrl = P2 /\ searchTerm = "myppt"

\* the filter of the q parameter: the id, the title or the page url holds the
\* term (the ids are digits and the titles are "/a": they hold no term of
\* SearchTerms)
Matches(r, searchTerm) == r.pageUrl # "" /\ Includes(r.pageUrl, searchTerm)

\* records.map(r => ({...r, fileExists: fs.existsSync(path.join(DATA_DIR, r.backupPath))}))
WithStatus(recs) ==
  [k \in DOMAIN recs |-> [fileExists |-> Exists(recs[k].backupPath)] @@ recs[k]]

\* the body of the answer to GET /api/records?type=..&q=..
Listing(recs, type, q) ==
  LET byType == IF type # "" /\ type # "all"
                THEN SeqFilter(Reverse(recs), {r \in Range(recs) : r.type = type})
                ELSE Reverse(recs)
      found == IF q # ""
               THEN SeqFilter(byType, {r \in Range(recs) : Matches(r, ToLowerCase(q))})
               ELSE byType
  IN WithStatus(found)

\* the handler reads the store and the disk and writes nothing
ListRecords(type, q) ==
  /\ last' = [records |-> Listing(records, type, q), type |-> type, q |-> q]
             @@ [Resp("records", 200, TRUE) EXCEPT !.total = Len(Listing(records, type, q))]
  /\ UNCHANGED <<now, dirsMade, records, files, chunks, capPending, up, dl, budget, lastDl, bvars, qvars>>

(* -------------------------- POST /api/upload -------------------------- *)

\* x-chunk-index and x-total-chunks as sent (NoHdr: header absent)
ChunkHeaders ==
  {<<NoHdr, NoHdr>>, <<0, NoHdr>>} \cup ((0..MaxChunks) \X (1..MaxChunks))

UploadNoId ==
  /\ budget > 0
  /\ budget' = budget - 1
  /\ last' = Resp("upload", 400, FALSE)
  /\ UNCHANGED <<now, dirsMade, records, files, chunks, capPending, up, dl, lastDl, bvars, qvars>>

UploadUnknown(id) ==
  /\ budget > 0
  /\ FindById(records, id) = 0
  /\ budget' = budget - 1
  /\ dirsMade' = TRUE
  /\ last' = Resp("upload", 404, FALSE)
  /\ UNCHANGED <<now, records, files, chunks, capPending, up, dl, lastDl, bvars, qvars>>

\* the record is looked up, then the handler suspends in `for await (... of req)`
UploadArrive(id, h) ==
  /\ budget > 0
  /\ Cardinality(up) < MaxInFlight
  /\ FindById(records, id) # 0
  /\ budget' = budget - 1
  /\ dirsMade' = TRUE
  /\ up' = up \cup {[n |-> budget, id |-> id, record |-> records[FindById(records, id)],
                     chunkIndex |-> h[1], totalChunks |-> h[2]]}
  /\ UNCHANGED <<now, records, files, chunks, capPending, dl, last, lastDl, bvars, qvars>>

\* the request stream fails while the body is read: the catch block answers 500
UploadAbort(u) ==
  /\ u \in up
  /\ up' = up \ {u}
  /\ last' = Resp("upload", 500, FALSE)
  /\ UNCHANGED <<now, dirsMade, records, files, chunks, capPending, dl, budget, lastDl, bvars, qvars>>

\* variant: the body's length is not tested, and an empty body is written as
\* a single upload
UploadEmptyWritten(u) ==
  /\ u \in up
  /\ up' = up \ {u}
  /\ files' = Put(files, TargetPath(u.record.type, Basename(u.record.backupPath)), <<>>)
  /\ last' = [Resp("upload", 200, TRUE) EXCEPT !.size = 0]
  /\ UNCHANGED <<now, dirsMade, records, chunks, capPending, dl, budget, lastDl, bvars, qvars>>

UploadEmpty(u) ==
  /\ u \in up
  /\ up' = up \ {u}
  /\ last' = Resp("upload", 400, FALSE)
  /\ UNCHANGED <<now, dirsMade, records, files, chunks, capPending, dl, budget, lastDl, bvars, qvars>>

\* const destPath = path.join(targetDir, path.basename(record.backupPath))
UploadDest(record) == TargetPath(record.type, Basename(record.backupPath))

\* the chunk directory of a record, empty when it does not exist
ChunkDir(id) == IF id \in DOMAIN chunks THEN chunks[id] ELSE <<>>

\* a completeness test that accepts a directory with more files than declared
AtLeastReceived(dir, total) == Cardinality(DOMAIN dir) >= total

\* fs.readdirSync(chunkDir).filter(f => f.startsWith('chunk_')).length === parseInt(totalChunks)
AllReceived(dir, total) == Cardinality(DOMAIN dir) = total

\* the chunks joined in the order the directory lists them when the newest file
\* comes first
RECURSIVE ConcatNewestFirst(_, _, _)
ConcatNewestFirst(dir, i, total) ==
  IF i >= total THEN <<>> ELSE ConcatNewestFirst(dir, i + 1, total) \o dir[i]

\* Buffer.concat of chunk_0 .. chunk_{total-1}
RECURSIVE ConcatChunks(_, _, _)
ConcatChunks(dir, i, total) ==
  IF i >= total THEN <<>> ELSE dir[i] \o ConcatChunks(dir, i + 1, total)

UploadSingle(u, payload) ==
  /\ u \in up
  /\ u.chunkIndex = NoHdr \/ u.totalChunks = NoHdr
  /\ up' = up \ {u}
  /\ files' = Put(files, UploadDest(u.record), payload)
  /\ last' = [Resp("upload", 200, TRUE) EXCEPT !.size = Len(payload)]
  /\ UNCHANGED <<now, dirsMade, records, chunks, capPending, dl, budget, lastDl, bvars, qvars>>

\* variant: the chunk directory is not removed after the assembly
UploadChunkKeepDir(u, payload) ==
  LET dir == Put(ChunkDir(u.id), u.chunkIndex, payload)
  IN /\ u \in up
     /\ u.chunkIndex # NoHdr /\ u.totalChunks # NoHdr
     /\ up' = up \ {u}
     /\ chunks' = Put(chunks, u.id, dir)
     /\ IF ~AllReceived(dir, u.totalChunks)
        THEN /\ files' = files
             /\ last' = [Resp("upload", 200, TRUE) EXCEPT
                           !.chunk = u.chunkIndex, !.total = u.totalChunks]
        ELSE IF \E i \in 0..(u.totalChunks - 1) : i \notin DOMAIN dir
        THEN /\ files' = files
             /\ last' = Resp("upload", 500, FALSE)
        ELSE /\ files' = Put(files, UploadDest(u.record), ConcatChunks(dir, 0, u.totalChunks))
             /\ last' = [Resp("upload", 200, TRUE) EXCEPT
                           !.chunk = u.chunkIndex, !.total = u.totalChunks]
     /\ UNCHANGED <<now, dirsMade, records, capPending, dl, budget, lastDl, bvars, qvars>>

\* variant: a chunk file that exists is not written again (flag 'wx' semantics
\* without the error)
UploadChunkKeepFirst(u, payload) ==
  LET dir == IF u.chunkIndex \in DOMAIN ChunkDir(u.id) THEN ChunkDir(u.id)
             ELSE Put(ChunkDir(u.id), u.chunkIndex, payload)
  IN /\ u \in up
     /\ u.chunkIndex # NoHdr /\ u.totalChunks # NoHdr
     /\ up' = up \ {u}
     /\ IF ~AllReceived(dir, u.totalChunks)
        THEN /\ chunks' = Put(chunks, u.id, dir)
             /\ files' = files
             /\ last' = [Resp("upload", 200, TRUE) EXCEPT
                           !.chunk = u.chunkIndex, !.total = u.totalChunks]
        ELSE IF \E i \in 0..(u.totalChunks - 1) : i \notin DOMAIN dir
        THEN /\ chunks' = Put(chunks, u.id, dir)
             /\ files' = files
             /\ last' = Resp("upload", 500, FALSE)
        ELSE /\ files' = Put(files, UploadDest(u.record), ConcatChunks(dir, 0, u.totalChunks))
             /\ chunks' = Drop(chunks, u.id)
             /\ last' = [Resp("upload", 200, TRUE) EXCEPT
                           !.chunk = u.chunkIndex, !.total = u.totalChunks]
     /\ UNCHANGED <<now, dirsMade, records, capPending, dl, budget, lastDl, bvars, qvars>>

UploadChunk(u, payload) ==
  LET dir == Put(ChunkDir(u.id), u.chunkIndex, payload)
  IN /\ u \in up
     /\ u.chunkIndex # NoHdr /\ u.totalChunks # NoHdr
     /\ up' = up \ {u}
     /\ IF ~AllReceived(dir, u.totalChunks)
        THEN /\ chunks' = Put(chunks, u.id, dir)
             /\ files' = files
             /\ last' = [Resp("upload", 200, TRUE) EXCEPT
                           !.chunk = u.chunkIndex, !.total = u.totalChunks]
        ELSE IF \E i \in 0..(u.totalChunks - 1) : i \notin DOMAIN dir
        THEN \* fs.readFileSync of a missing chunk_i throws: the catch block answers 500
             /\ chunks' = Put(chunks, u.id, dir)
             /\ files' = files
             /\ last' = Resp("upload", 500, FALSE)
        ELSE /\ files' = Put(files, UploadDest(u.record), ConcatChunks(dir, 0, u.totalChunks))
             /\ chunks' = Drop(chunks, u.id)
             /\ last' = [Resp("upload", 200, TRUE) EXCEPT
                           !.chunk = u.chunkIndex, !.total = u.totalChunks]
     /\ UNCHANGED <<now, dirsMade, records, capPending, dl, budget, lastDl, bvars, qvars>>

UploadRequest ==
  \/ UploadNoId
  \/ \E id \in IdInputs : UploadUnknown(id) \/ \E h \in ChunkHeaders : UploadArrive(id, h)

UploadBody ==
  \/ \E u \in up : UploadAbort(u)
  \/ \E u \in up : UploadEmpty(u)
  \/ \E u \in up : \E payload \in Payloads : UploadSingle(u, payload)
  \/ \E u \in up : \E payload \in Payloads : UploadChunk(u, payload)

(* ------------------- _lurl-retry.js: bypass engine -------------------- *)

\* if (blob.size < 1000)
MinSize == 1000
\* const CONCURRENCY = 4
CONCURRENCY == 4

\* a body of n bytes
Fill(n) == [i \in 1..n |-> i % 256]

\* what the in-page fetch(cdnUrl) meets: a network error, a non-2xx answer,
\* a 2xx answer with a body just under and just at the minimum size
PageFetches ==
  {[kind |-> "neterr", body |-> <<>>], [kind |-> "http403", body |-> <<>>],
   [kind |-> "ok", body |-> Fill(MinSize - 1)], [kind |-> "ok", body |-> Fill(MinSize)]}

\* btoa(binary): the base64 digits (0..63, 64 is the "=" padding) of a byte string
Btoa(bytes) ==
  LET n == Len(bytes)
      At(k) == IF k <= n THEN bytes[k] ELSE 0
      Digit(j) ==
        LET q == (j - 1) \div 4
            r == (j - 1) % 4
            v == At(3 * q + 1) * 65536 + At(3 * q + 2) * 256 + At(3 * q + 3)
        IN IF r >= 2 /\ 3 * q + r > n THEN 64
           ELSE IF r = 0 THEN v \div 262144
           ELSE IF r = 1 THEN (v \div 4096) % 64
           ELSE IF r = 2 THEN (v \div 64) % 64
           ELSE v % 64
  IN [j \in 1..(4 * ((n + 2) \div 3)) |-> Digit(j)]

\* Buffer.from(data, 'base64')
FromBase64(digits) ==
  LET m == Len(digits)
      pad == Cardinality({j \in 1..m : digits[j] = 64})
      Val(j) == IF digits[j] = 64 THEN 0 ELSE digits[j]
      Byte(i) ==
        LET q == (i - 1) \div 3
            r == (i - 1) % 3
            v == Val(4 * q + 1) * 262144 + Val(4 * q + 2) * 4096
                 + Val(4 * q + 3) * 64 + Val(4 * q + 4)
        IN IF r = 0 THEN v \div 65536
           ELSE IF r = 1 THEN (v \div 256) % 256
           ELSE v % 256
  IN [i \in 1..(3 * (m \div 4) - pad) |-> Byte(i)]

\* Buffer.from(btoa(binary), 'base64') tabulated for the bodies the page can fetch
Transferred == [f \in PageFetches |-> FromBase64(Btoa(f.body))]

\* const destPath = path.join(dataDir, record.backupPath), with dataDir = DATA_DIR
RetryDest(record) == record.backupPath

\* retryRecord(record, dataDir) is called: downloadInPageContext runs up to the
\* await in initBrowser, which launches only if `browser` is null at that moment.
\* idx is the record's position in the batch (0: called outside a batch), page
\* is the state of the call's browser page: "none", "open" or "closed"
NewAttempt(record, idx) ==
  [rec |-> record, idx |-> idx,
   pc |-> IF browser = 0 THEN "launching" ELSE "newpage", b |-> browser, page |-> "none",
   result |-> "none", why |-> "none", absentBefore |-> ~Exists(RetryDest(record)),
   deleted |-> FALSE]

\* puppeteer.launch resolves: browser = <the new instance>; return browser
AttLaunched(a) ==
  /\ att[a].pc = "launching"
  /\ launched' = launched + 1
  /\ alive' = alive \cup {launched + 1}
  /\ browser' = launched + 1
  /\ att' = [att EXCEPT ![a].pc = "newpage", ![a].b = launched + 1]
  /\ UNCHANGED <<svars, batch, qvars>>

\* puppeteer.launch rejects, outside any try block: the call rejects
AttLaunchFail(a) ==
  /\ att[a].pc = "launching"
  /\ att' = [att EXCEPT ![a].pc = "thrown", ![a].why = "launch"]
  /\ UNCHANGED <<svars, browser, launched, alive, batch, qvars>>

\* const page = await browser.newPage() resolves
AttNewPage(a) ==
  /\ att[a].pc = "newpage"
  /\ att[a].b \in alive
  /\ att' = [att EXCEPT ![a].pc = "nav", ![a].page = "open"]
  /\ UNCHANGED <<svars, browser, launched, alive, batch, qvars>>

\* browser.newPage() rejects, outside the try block: the call rejects
AttNewPageFail(a) ==
  /\ att[a].pc = "newpage"
  /\ att' = [att EXCEPT ![a].pc = "thrown", ![a].why = "newPage"]
  /\ UNCHANGED <<svars, browser, launched, alive, batch, qvars>>

\* how the navigation to a share page can end: the page loads, page.goto
\* rejects (timeout, network error), or the page sits on the Cloudflare
\* challenge and waitForNavigation times out. The first page may do any of
\* these, the second never loads, the third is always challenged
NavOutcomes(pageUrl) ==
  CASE pageUrl = P1 -> {"loaded", "error", "challenge"}
    [] pageUrl = P2 -> {"error"}
    [] pageUrl = "https://lurl.cc/p3" -> {"challenge"}
    [] OTHER -> {"loaded"}

\* setUserAgent, setCookie, page.goto resolves, the page is not on the
\* challenge, the 500 ms pause
AttNav(a) ==
  /\ att[a].pc = "nav"
  /\ att[a].b \in alive
  /\ "loaded" \in NavOutcomes(att[a].rec.pageUrl)
  /\ att' = [att EXCEPT ![a].pc = "eval"]
  /\ UNCHANGED <<svars, browser, launched, alive, batch, qvars>>

\* variant: page.goto is not wrapped in a try block of its own, so that the
\* outer catch returns {success: false}
AttNavErrorUnwrapped(a) ==
  /\ att[a].pc = "nav"
  /\ att[a].b \in alive
  /\ "error" \in NavOutcomes(att[a].rec.pageUrl)
  /\ att' = [att EXCEPT ![a].pc = "close", ![a].result = "failure"]
  /\ UNCHANGED <<svars, browser, launched, alive, batch, qvars>>

\* page.goto rejects: the inner catch block ignores the error, then the pause
AttNavError(a) ==
  /\ att[a].pc = "nav"
  /\ att[a].b \in alive
  /\ "error" \in NavOutcomes(att[a].rec.pageUrl)
  /\ att' = [att EXCEPT ![a].pc = "eval"]
  /\ UNCHANGED <<svars, browser, launched, alive, batch, qvars>>

\* page.url() is on challenges.cloudflare.com and waitForNavigation rejects
\* after 15 s: .catch(() => {}) ignores the error, then the pause
AttChallengeTimeout(a) ==
  /\ att[a].pc = "nav"
  /\ att[a].b \in alive
  /\ "challenge" \in NavOutcomes(att[a].rec.pageUrl)
  /\ att' = [att EXCEPT ![a].pc = "eval"]
  /\ UNCHANGED <<svars, browser, launched, alive, batch, qvars>>

\* variant: page.close() at the end of the try block, not in finally
AttPageFailNoFinally(a) ==
  /\ att[a].pc \in {"nav", "eval"}
  /\ att' = [att EXCEPT ![a].pc = "done", ![a].result = "failure"]
  /\ UNCHANGED <<svars, browser, launched, alive, batch, qvars>>

\* a puppeteer call inside the try block rejects (setCookie, page.evaluate on a
\* crashed page): catch returns {success: false}, finally closes the page
AttPageFail(a) ==
  /\ att[a].pc \in {"nav", "eval"}
  /\ att' = [att EXCEPT ![a].pc = "close", ![a].result = "failure"]
  /\ UNCHANGED <<svars, browser, launched, alive, batch, qvars>>

\* page.evaluate resolves with {error} or {success, data, size}; on success the
\* decoded data is written to destPath
AttEval(a, f) ==
  /\ att[a].pc = "eval"
  /\ att[a].b \in alive
  /\ IF f.kind = "ok" /\ ~(Len(f.body) < MinSize)
     THEN /\ files' = Put(files, RetryDest(att[a].rec), Transferred[f])
          /\ att' = [att EXCEPT ![a].pc = "close", ![a].result = "success"]
     ELSE /\ files' = files
          /\ att' = [att EXCEPT ![a].pc = "close", ![a].result = "failure"]
  /\ UNCHANGED <<now, dirsMade, records, chunks, capPending, up, dl, budget, last, lastDl,
                 browser, launched, alive, batch, qvars>>

\* what fs.writeFileSync has done when it throws: nothing (the open failed), or
\* it has created or truncated the file and written its first n bytes (none)
NotOpened == 0 - 1
WriteErrors == {NotOpened, 0}

\* page.evaluate resolves with the data and fs.mkdirSync or fs.writeFileSync
\* throws: catch returns {success: false}, finally closes the page
AttWriteFail(a, f, n) ==
  /\ att[a].pc = "eval"
  /\ att[a].b \in alive
  /\ f.kind = "ok" /\ ~(Len(f.body) < MinSize)
  /\ files' = IF n = NotOpened THEN files
              ELSE Put(files, RetryDest(att[a].rec), SubSeq(Transferred[f], 1, n))
  /\ att' = [att EXCEPT ![a].pc = "close", ![a].result = "failure"]
  /\ UNCHANGED <<now, dirsMade, records, chunks, capPending, up, dl, budget, last, lastDl,
                 browser, launched, alive, batch, qvars>>

\* variant: successIds.push(record.id) outside the `if (result.success)` block
AttClosePushAll(a) ==
  /\ att[a].pc = "close"
  /\ att' = [att EXCEPT ![a].pc = "done", ![a].page = "closed"]
  /\ batch' = IF att[a].idx = 0 THEN batch
              ELSE [batch EXCEPT
                      !.completed = @ + 1,
                      !.successCount = IF att[a].result = "success" THEN @ + 1 ELSE @,
                      !.successIds = Append(@, att[a].rec.id),
                      !.progress = Append(@, <<batch.completed + 1, Len(batch.records),
                                               att[a].rec.id, att[a].result>>)]
  /\ UNCHANGED <<svars, browser, launched, alive, qvars>>

\* finally { await page.close() } resolves and the call returns its result; in a
\* batch the map callback goes on: completed++, the success tally, onProgress
AttClose(a) ==
  /\ att[a].pc = "close"
  /\ att' = [att EXCEPT ![a].pc = "done", ![a].page = "closed"]
  /\ batch' = IF att[a].idx = 0 THEN batch
              ELSE [batch EXCEPT
                      !.completed = @ + 1,
                      !.successCount = IF att[a].result = "success" THEN @ + 1 ELSE @,
                      !.successIds = IF att[a].result = "success"
                                     THEN Append(@, att[a].rec.id) ELSE @,
                      !.progress = Append(@, <<batch.completed + 1, Len(batch.records),
                                               att[a].rec.id, att[a].result>>)]
  /\ UNCHANGED <<svars, browser, launched, alive, qvars>>

\* page.close() rejects inside finally: the rejection replaces the return value
AttCloseFail(a) ==
  /\ att[a].pc = "close"
  /\ att' = [att EXCEPT ![a].pc = "thrown", ![a].why = "close"]
  /\ UNCHANGED <<svars, browser, launched, alive, batch, qvars>>

\* the steps of the calls in progress when the disk refuses a write
DiskError == \E a \in DOMAIN att : \E f \in PageFetches : \E n \in WriteErrors : AttWriteFail(a, f, n)

\* the steps of the calls in progress on a disk that takes every write
Attempt ==
  \/ \E a \in DOMAIN att : AttLaunched(a)
  \/ \E a \in DOMAIN att : AttLaunchFail(a)
  \/ \E a \in DOMAIN att : AttNewPage(a)
  \/ \E a \in DOMAIN att : AttNewPageFail(a)
  \/ \E a \in DOMAIN att : AttNav(a)
  \/ \E a \in DOMAIN att : AttNavError(a)
  \/ \E a \in DOMAIN att : AttChallengeTimeout(a)
  \/ \E a \in DOMAIN att : AttPageFail(a)
  \/ \E a \in DOMAIN att : \E f \in PageFetches : AttEval(a, f)
  \/ \E a \in DOMAIN att : AttClose(a)
  \/ \E a \in DOMAIN att : AttCloseFail(a)

\* retryRecord(record, DATA_DIR) is called for a stored record
RetryRecordCall(i) ==
  /\ Len(att) < MaxCalls
  /\ i \in DOMAIN records
  /\ budget' = budget
  /\ att' = Append(att, NewAttempt(records[i], 0))
  /\ UNCHANGED <<now, dirsMade, records, files, chunks, capPending, up, dl, last, lastDl,
                 browser, launched, alive, batch, qvars>>

(* ------------------------------ batchRetry ---------------------------- *)

\* a second batchRetry call, over at most one record: a is the position of its
\* attempt in att
NoOverlap == [pc |-> "idle", a |-> 0, closing |-> 0, successCount |-> 0, total |-> NoId]

\* slices counts the groups pushed by a slicing loop that has not ended; other
\* is a second batchRetry call that runs at the same time
NoBatch ==
  [pc |-> "idle", records |-> <<>>, concurrency |-> 0, lo |-> 0, completed |-> 0,
   successCount |-> 0, successIds |-> <<>>, progress |-> <<>>, closing |-> 0, total |-> NoId,
   slices |-> 0, other |-> NoOverlap]

\* variant: the slice has no end (records.slice(i))
GroupAttemptsRest(recs, lo, concurrency) ==
  [k \in 1..(Len(recs) - lo + 1) |-> NewAttempt(recs[lo + k - 1], lo + k - 1)]

\* chunk.map(async (record) => ... retryRecord(record, dataDir) ...) for the
\* group records[lo .. lo + concurrency - 1]
GroupAttempts(recs, lo, concurrency) ==
  LET hi == IF lo + concurrency - 1 < Len(recs) THEN lo + concurrency - 1 ELSE Len(recs)
  IN [k \in 1..(hi - lo + 1) |-> NewAttempt(recs[lo + k - 1], lo + k - 1)]

\* variant: only the first promise of the group is awaited
InGroupFirst(a) == att[a].idx = batch.lo

\* the attempts of the group that is running
InGroup(a) ==
  /\ att[a].idx >= batch.lo
  /\ att[a].idx < batch.lo + batch.concurrency

\* await closeBrowser() after the last group
CloseBrowserCall(b) ==
  IF browser # 0
  THEN /\ alive' = alive \ {browser}
       /\ batch' = [b EXCEPT !.pc = "closing", !.closing = browser]
  ELSE /\ alive' = alive
       /\ batch' = [b EXCEPT !.pc = "returned", !.total = Len(b.records)]

\* batchRetry(records, dataDir, onProgress, concurrency) is called and runs up
\* to its first await; with a concurrency that is not positive its first loop,
\* for (let i = 0; i < records.length; i += concurrency), does not get there
BatchStart(recs, concurrency) ==
  LET b == [NoBatch EXCEPT !.records = recs, !.concurrency = concurrency, !.lo = 1,
                           !.other = batch.other]
  IN /\ batch.pc = "idle"
     /\ att = <<>>
     /\ IF recs = <<>>
        THEN /\ CloseBrowserCall(b)
             /\ att' = att
        ELSE IF concurrency <= 0
        THEN /\ batch' = [b EXCEPT !.pc = "slicing", !.lo = 1 + concurrency, !.slices = 1]
             /\ att' = att
             /\ alive' = alive
        ELSE /\ batch' = [b EXCEPT !.pc = "running"]
             /\ att' = GroupAttempts(recs, 1, concurrency)
             /\ alive' = alive
     /\ UNCHANGED <<svars, browser, launched, qvars>>

\* largest number of groups a slicing loop pushes before it is left alone
MaxSlices == 3

\* one more iteration of the slicing loop: chunks.push(records.slice(i, i +
\* concurrency)); i += concurrency (lo is i + 1)
BatchSlice ==
  /\ batch.pc = "slicing"
  /\ batch.lo - 1 < Len(batch.records)
  /\ batch.slices < MaxSlices
  /\ batch' = [batch EXCEPT !.lo = @ + batch.concurrency, !.slices = @ + 1]
  /\ UNCHANGED <<svars, browser, launched, alive, att, qvars>>

\* await Promise.all(promises) resolves: the next group starts, or the loop ends
BatchNextGroup ==
  LET lo == batch.lo + batch.concurrency
  IN /\ batch.pc = "running"
     /\ \A a \in DOMAIN att : InGroup(a) => att[a].pc = "done"
     /\ IF lo <= Len(batch.records)
        THEN /\ batch' = [batch EXCEPT !.lo = lo]
             /\ att' = att \o GroupAttempts(batch.records, lo, batch.concurrency)
             /\ alive' = alive
        ELSE /\ CloseBrowserCall(batch)
             /\ att' = att
     /\ UNCHANGED <<svars, browser, launched, qvars>>

\* one promise of the group rejects: Promise.all rejects, and batchRetry, which
\* catches nothing, rejects
BatchAbort ==
  /\ batch.pc = "running"
  /\ \E a \in DOMAIN att : InGroup(a) /\ att[a].pc = "thrown"
  /\ batch' = [batch EXCEPT !.pc = "thrown"]
  /\ UNCHANGED <<svars, browser, launched, alive, att, qvars>>

\* browser.close() resolves: browser = null; batchRetry returns its tally
BatchClosed ==
  /\ batch.pc = "closing"
  /\ browser' = 0
  /\ batch' = [batch EXCEPT !.pc = "returned", !.total = Len(batch.records)]
  /\ UNCHANGED <<svars, launched, alive, att, qvars>>

(* ------------------- batchRetry: a second call ------------------------ *)

\* await closeBrowser() at the end of the second call
OverlapCloseBrowser(o) ==
  IF browser # 0
  THEN /\ alive' = alive \ {browser}
       /\ batch' = [batch EXCEPT !.other = [o EXCEPT !.pc = "closing", !.closing = browser]]
  ELSE /\ alive' = alive
       /\ batch' = [batch EXCEPT !.other = [o EXCEPT !.pc = "returned"]]

\* batchRetry(recs, dataDir) is called a second time with the default
\* concurrency, for no record or for one: its only group starts, or it goes
\* straight to closeBrowser
OverlapStart(recs) ==
  /\ batch.other.pc = "idle"
  /\ IF recs = <<>>
     THEN /\ OverlapCloseBrowser([NoOverlap EXCEPT !.total = 0])
          /\ att' = att
     ELSE /\ batch' = [batch EXCEPT !.other = [NoOverlap EXCEPT !.pc = "running",
                                                                !.a = Len(att) + 1,
                                                                !.total = Len(recs)]]
          /\ att' = Append(att, NewAttempt(recs[1], 0))
          /\ alive' = alive
  /\ UNCHANGED <<svars, browser, launched, qvars>>

\* Promise.all of the second call's group resolves (its callback has counted
\* the result): the loop ends and closeBrowser is called
OverlapNext ==
  LET o == batch.other
  IN /\ o.pc = "running"
     /\ att[o.a].pc = "done"
     /\ OverlapCloseBrowser([o EXCEPT
                               !.successCount = IF att[o.a].result = "success" THEN 1 ELSE 0])
     /\ UNCHANGED <<svars, browser, launched, att, qvars>>

\* the attempt of the second call rejects: so does the call
OverlapAbort ==
  /\ batch.other.pc = "running"
  /\ att[batch.other.a].pc = "thrown"
  /\ batch' = [batch EXCEPT !.other.pc = "thrown"]
  /\ UNCHANGED <<svars, browser, launched, alive, att, qvars>>

\* browser.close() of the second call resolves: browser = null; it returns
OverlapClosed ==
  /\ batch.other.pc = "closing"
  /\ browser' = 0
  /\ batch' = [batch EXCEPT !.other.pc = "returned"]
  /\ UNCHANGED <<svars, launched, alive, att, qvars>>

(* ------------------ Quota-Gated Recovery Service ---------------------- *)
(* This service is not part of server/lurl.js as modelled above; it is     *)
(* modelled from section 4.5 of the specification, steps 1 to 5.           *)

Visitors == {"v1", "v2"}

\* the share URLs visitors submit: stored pages, a stored page in another
\* casing and under a longer path, and a page never captured
SubmittedUrls ==
  {P1, "https://lurl.cc/x/P1", P2, "https://lurl.cc/p3", "https://myppt.cc/p4",
   "https://lurl.cc/p5", "https://lurl.cc/zz"}

\* the path segments of a share URL, each a sequence of characters
PathSegments(u) ==
  CASE u = P1 -> << <<"p", "1">> >>
    [] u = "https://lurl.cc/x/P1" -> << <<"x">>, <<"P", "1">> >>
    [] u = P2 -> << <<"p", "2">> >>
    [] u = "https://lurl.cc/p3" -> << <<"p", "3">> >>
    [] u = "https://myppt.cc/p4" -> << <<"p", "4">> >>
    [] u = "https://lurl.cc/p5" -> << <<"p", "5">> >>
    [] u = "https://lurl.cc/zz" -> << <<"z", "z">> >>
    [] OTHER -> << <<>> >>

\* case folding of one character
Fold(ch) ==
  CASE ch = "P" -> "p"
    [] ch = "X" -> "x"
    [] ch = "Z" -> "z"
    [] OTHER -> ch

\* the slug of a share URL: its trailing path segment, case-folded
Slug(u) ==
  LET segs == PathSegments(u)
      seg == segs[Len(segs)]
  IN [i \in DOMAIN seg |-> Fold(seg[i])]

\* the blocked flag of a record (a record stored without the flag is not blocked)
IsBlocked(r) == "blocked" \in DOMAIN r /\ r.blocked

\* variant: blocked records take part in the match
MatchAnyRecord(recs, url) ==
  LET hits == {i \in DOMAIN recs : Slug(recs[i].pageUrl) = Slug(url)}
  IN IF hits = {} THEN 0 ELSE CHOOSE i \in hits : \A j \in hits : i <= j

\* steps 1 and 2: the first record that is not blocked and whose pageUrl has
\* the slug of the submitted URL (0: none)
MatchRecord(recs, url) ==
  LET hits == {i \in DOMAIN recs : ~IsBlocked(recs[i]) /\ Slug(recs[i].pageUrl) = Slug(url)}
  IN IF hits = {} THEN 0 ELSE CHOOSE i \in hits : \A j \in hits : i <= j

\* the URL under which the file server serves a record's backing file
BackupUrl(r) == <<"files", r.backupPath>>

\* variant: the request is refused only when remaining < 0
RemainingInclusive(q) == (q.freeQuota - q.usedCount) + q.paidQuota + 1

\* step 4: remaining = (freeQuota - usedCount) + paidQuota
Remaining(q) == (q.freeQuota - q.usedCount) + q.paidQuota

\* the slugs of a visitor's history
HistorySlugs(q) == {q.history[i].slug : i \in DOMAIN q.history}

\* variant: the history is never consulted
NotInHistory(q, slug) == FALSE

\* step 3: the visitor's history already contains this slug
InHistory(q, slug) == slug \in HistorySlugs(q)

\* an answer of the service, with the request it answers: its visitor, its URL
\* and its serial number n (0: no request yet)
Answer(kind, ok) ==
  [kind |-> kind, ok |-> ok, n |-> 0, visitor |-> "", url |-> "", backupUrl |-> <<>>,
   alreadyRecovered |-> FALSE, remaining |-> NoId]

\* record m of the store exists and its backing file is present
HasBackup(m) == m # 0 /\ Exists(records[m].backupPath)

\* step 2: no matching record, or the matching record's backing file is absent
RecoverNoBackup(v, url) ==
  LET m == MatchRecord(records, url)
  IN /\ budget > 0
     /\ ~HasBackup(m)
     /\ budget' = budget - 1
     /\ lastRec' = [Answer("no_backup", FALSE) EXCEPT !.n = budget, !.visitor = v, !.url = url]
     /\ UNCHANGED <<now, dirsMade, records, files, chunks, capPending, up, dl, last, lastDl,
                    bvars, quota>>

\* variant: the replay is charged like a first recovery
RecoverReplayCharged(v, url) ==
  LET m == MatchRecord(records, url)
  IN /\ budget > 0
     /\ HasBackup(m)
     /\ InHistory(quota[v], Slug(url))
     /\ budget' = budget - 1
     /\ quota' = [quota EXCEPT ![v].usedCount = @ + 1]
     /\ lastRec' = [Answer("ok", TRUE) EXCEPT
                      !.n = budget, !.visitor = v, !.url = url,
                      !.backupUrl = BackupUrl(records[m]),
                      !.alreadyRecovered = TRUE, !.remaining = Remaining(quota[v])]
     /\ UNCHANGED <<now, dirsMade, records, files, chunks, capPending, up, dl, last, lastDl,
                    bvars>>

\* step 3: idempotent replay
RecoverReplay(v, url) ==
  LET m == MatchRecord(records, url)
  IN /\ budget > 0
     /\ HasBackup(m)
     /\ InHistory(quota[v], Slug(url))
     /\ budget' = budget - 1
     /\ lastRec' = [Answer("ok", TRUE) EXCEPT
                      !.n = budget, !.visitor = v, !.url = url, !.backupUrl = BackupUrl(records[m]),
                      !.alreadyRecovered = TRUE, !.remaining = Remaining(quota[v])]
     /\ UNCHANGED <<now, dirsMade, records, files, chunks, capPending, up, dl, last, lastDl,
                    bvars, quota>>

\* step 4: nothing remains
RecoverExhausted(v, url) ==
  LET m == MatchRecord(records, url)
  IN /\ budget > 0
     /\ HasBackup(m)
     /\ ~InHistory(quota[v], Slug(url))
     /\ Remaining(quota[v]) <= 0
     /\ budget' = budget - 1
     /\ lastRec' = [Answer("quota_exhausted", FALSE) EXCEPT
                      !.n = budget, !.visitor = v, !.url = url, !.remaining = Remaining(quota[v])]
     /\ UNCHANGED <<now, dirsMade, records, files, chunks, capPending, up, dl, last, lastDl,
                    bvars, quota>>

\* step 5: append a history entry, increment usedCount, return the backup URL
\* and the updated balance
RecoverNew(v, url) ==
  LET m == MatchRecord(records, url)
      q == [quota[v] EXCEPT
              !.usedCount = @ + 1,
              !.history = Append(@, [slug |-> Slug(url), backupUrl |-> BackupUrl(records[m])])]
  IN /\ budget > 0
     /\ HasBackup(m)
     /\ ~InHistory(quota[v], Slug(url))
     /\ ~(Remaining(quota[v]) <= 0)
     /\ budget' = budget - 1
     /\ quota' = [quota EXCEPT ![v] = q]
     /\ lastRec' = [Answer("ok", TRUE) EXCEPT
                      !.n = budget, !.visitor = v, !.url = url, !.backupUrl = BackupUrl(records[m]),
                      !.remaining = Remaining(q)]
     /\ UNCHANGED <<now, dirsMade, records, files, chunks, capPending, up, dl, last, lastDl,
                    bvars>>

\* setBlocked: the record's blocked flag is set or cleared in the store
SetBlocked(i, flag) ==
  /\ i \in DOMAIN records
  /\ "blocked" \in DOMAIN records[i]
  /\ records[i].blocked # flag
  /\ records' = [records EXCEPT ![i].blocked = flag]
  /\ UNCHANGED <<now, dirsMade, files, chunks, capPending, up, dl, budget, last, lastDl,
                 bvars, qvars>>

(* --------------------------- specifications -------------------------- *)

NoBypass ==
  /\ browser = 0
  /\ launched = 0
  /\ alive = {}
  /\ att = <<>>
  /\ batch = NoBatch

\* no visitor has asked for a recovery: an empty ledger
NoRecovery ==
  /\ quota = <<>>
  /\ lastRec = Answer("none", FALSE)

\* the server after start-up: an empty store
Init ==
  /\ now = 0
  /\ dirsMade = FALSE
  /\ records = <<>>
  /\ files = <<>>
  /\ chunks = <<>>
  /\ capPending = 0
  /\ up = {}
  /\ dl = <<>>
  /\ budget = MaxReq
  /\ last = Resp("none", 0, FALSE)
  /\ lastDl = "none"
  /\ NoBypass
  /\ NoRecovery

\* the record store under concurrent captures and their background downloads
Next ==
  \/ CaptureArrive
  \/ Capture(StoreBodies)
  \/ Download

Spec == Init /\ [][Next]_vars

\* downloadFile(url, destPath, pageUrl, cookies) alone: one call for a stored
\* record, with or without cookies and page url, its destination absent or present
DlCalls == [url : {F1, F2}, pageUrl : PageUrls \cup {""}, cookies : CookieVals, present : BOOLEAN]
\* the content of a destination that is present (an earlier single upload)
OldBody == <<1>>

InitDL ==
  \E c \in DlCalls :
    LET rec == NewRecord([title |-> <<"a">>, pageUrl |-> P1, fileUrl |-> c.url,
                          type |-> "video", cookies |-> c.cookies], 0)
    IN /\ now = 0
       /\ dirsMade = TRUE
       /\ records = <<rec>>
       /\ files = IF c.present THEN Put(<<>>, rec.backupPath, OldBody) ELSE <<>>
       /\ chunks = <<>>
       /\ capPending = 0
       /\ up = {}
       /\ dl = <<NewDownload(rec, c.url, rec.backupPath, c.pageUrl, c.cookies, "call")>>
       /\ budget = 0
       /\ last = Resp("none", 0, FALSE)
       /\ lastDl = "none"
       /\ NoBypass
       /\ NoRecovery

NextDL == Download

SpecDL == InitDL /\ [][NextDL]_vars

\* the upload endpoint alone, for a store that holds one image record without a
\* file (a capture whose background download failed)
InitUpload ==
    /\ now = 0
    /\ dirsMade = TRUE
    /\ records = <<NewRecord([title |-> <<"a">>, pageUrl |-> P1, fileUrl |-> F1,
                              type |-> "image", cookies |-> ""], 0)>>
    /\ files = <<>>
    /\ chunks = <<>>
    /\ capPending = 0
    /\ up = {}
    /\ dl = <<>>
    /\ budget = MaxReq
    /\ last = [Resp("capture", 200, TRUE) EXCEPT !.id = 0, !.needUpload = TRUE]
    /\ lastDl = "failed"
    /\ NoBypass
    /\ NoRecovery

NextUpload ==
  \/ UploadRequest
  \/ UploadBody

SpecUpload == InitUpload /\ [][NextUpload]_vars

\* acquisition of one page's file: captures of the page, the retry and delete
\* endpoints, the background downloads and retryRecord calls of the bypass engine
NextAcq ==
  \/ CaptureArrive
  \/ Capture(AcqBodies)
  \/ Download
  \/ Retry
  \/ Delete
  \/ \E i \in DOMAIN records : RetryRecordCall(i)
  \/ Attempt

InitAcq ==
  /\ now = 0
  /\ dirsMade = FALSE
  /\ records = <<>>
  /\ files = <<>>
  /\ chunks = <<>>
  /\ capPending = 0
  /\ up = {}
  /\ dl = <<>>
  /\ budget = MaxAcq
  /\ last = Resp("none", 0, FALSE)
  /\ lastDl = "none"
  /\ NoBypass
  /\ NoRecovery

SpecAcq == InitAcq /\ [][NextAcq]_vars

\* one batchRetry call over the first records of a store whose records have no
\* file (their downloads failed) and distinct ids
BatchPages == <<P1, P2, "https://lurl.cc/p3", "https://myppt.cc/p4", "https://lurl.cc/p5">>
Concurrencies == {1, 2, CONCURRENCY}

InitBatch ==
  /\ now = MaxBatch
  /\ dirsMade = TRUE
  /\ records = [i \in 1..MaxBatch |->
                  NewRecord([title |-> <<"a">>, pageUrl |-> BatchPages[i], fileUrl |-> F1,
                             type |-> "video", cookies |-> ""], i)]
  /\ files = <<>>
  /\ chunks = <<>>
  /\ capPending = 0
  /\ up = {}
  /\ dl = <<>>
  /\ budget = 0
  /\ last = [Resp("capture", 200, TRUE) EXCEPT !.id = MaxBatch, !.needUpload = TRUE]
  /\ lastDl = "failed"
  /\ NoBypass
  /\ NoRecovery

NextBatch ==
  \/ \E n \in 0..MaxBatch : \E c \in Concurrencies : BatchStart(SubSeq(records, 1, n), c)
  \/ Attempt
  \/ BatchNextGroup
  \/ BatchAbort
  \/ BatchClosed

SpecBatch == InitBatch /\ [][NextBatch]_vars

\* one batchRetry call with any concurrency argument, zero included
AnyConcurrencies == Concurrencies \cup {0}

NextBatchAny ==
  \/ \E n \in 0..MaxBatch : \E c \in AnyConcurrencies : BatchStart(SubSeq(records, 1, n), c)
  \/ BatchSlice
  \/ Attempt
  \/ BatchNextGroup
  \/ BatchAbort
  \/ BatchClosed

SpecBatchAny == InitBatch /\ [][NextBatchAny]_vars

\* two batchRetry calls at the same time: one over the first records of the
\* store in groups of one or two, the other over no record or over the last
OverlapConcurrencies == {1, 2}

NextOverlap ==
  \/ \E n \in 1..2 : \E c \in OverlapConcurrencies : BatchStart(SubSeq(records, 1, n), c)
  \/ \E n \in 0..1 : OverlapStart(SubSeq(records, Len(records), Len(records) + n - 1))
  \/ OverlapNext
  \/ OverlapAbort
  \/ OverlapClosed
  \/ Attempt
  \/ BatchNextGroup
  \/ BatchAbort
  \/ BatchClosed

SpecOverlap == InitBatch /\ [][NextOverlap]_vars

\* the Recovery Service over a store of five records, the first four with
\* their backing file, the fifth without (its download failed); records are
\* blocked, unblocked and deleted by the administrator between the requests
\* <<freeQuota, paidQuota>> of the first visitor; the second has <<1, 0>>
InitialQuotas == {<<3, 0>>, <<0, 1>>, <<0, 0>>}
NewVisitor(free, paid) ==
  [usedCount |-> 0, freeQuota |-> free, paidQuota |-> paid, history |-> <<>>]

RecoverRecords ==
  [i \in 1..5 |->
     NewRecord([title |-> <<"a">>, pageUrl |-> BatchPages[i], fileUrl |-> F1,
                type |-> "video", cookies |-> ""], i - 1) @@ [blocked |-> FALSE]]

\* the records the administrator blocks and unblocks
BlockTargets == {1}

InitRecover ==
  /\ now = 4
  /\ dirsMade = TRUE
  /\ records = RecoverRecords
  /\ files = [path \in {RecoverRecords[i].backupPath : i \in 1..4} |-> CdnBody]
  /\ chunks = <<>>
  /\ capPending = 0
  /\ up = {}
  /\ dl = <<>>
  /\ budget = MaxRecover
  /\ last = [Resp("capture", 200, TRUE) EXCEPT !.id = 4, !.needUpload = TRUE]
  /\ lastDl = "failed"
  /\ NoBypass
  /\ \E fp \in InitialQuotas :
       quota = [v \in Visitors |-> IF v = "v1" THEN NewVisitor(fp[1], fp[2])
                                   ELSE NewVisitor(1, 0)]
  /\ lastRec = Answer("none", FALSE)

NextRecover ==
  \/ \E v \in Visitors : \E u \in SubmittedUrls : RecoverNoBackup(v, u)
  \/ \E v \in Visitors : \E u \in SubmittedUrls : RecoverReplay(v, u)
  \/ \E v \in Visitors : \E u \in SubmittedUrls : RecoverExhausted(v, u)
  \/ \E v \in Visitors : \E u \in SubmittedUrls : RecoverNew(v, u)
  \/ \E i \in BlockTargets : \E flag \in BOOLEAN : SetBlocked(i, flag)
  \/ Delete

SpecRecover == InitRecover /\ [][NextRecover]_vars

\* captures into a store that holds one record marked blocked (the flag is
\* set in records.jsonl; the capture handler copies it in every rewrite), whose
\* file is present or has been removed
InitBlocked ==
  \E present \in BOOLEAN :
    LET rec == NewRecord([title |-> <<"a">>, pageUrl |-> P1, fileUrl |-> F1,
                          type |-> "video", cookies |-> ""], 0) @@ [blocked |-> TRUE]
    IN /\ now = 1
       /\ dirsMade = TRUE
       /\ records = <<rec>>
       /\ files = IF present THEN Put(<<>>, rec.backupPath, CdnBody) ELSE <<>>
       /\ chunks = <<>>
       /\ capPending = 0
       /\ up = {}
       /\ dl = <<>>
       /\ budget = MaxReq
       /\ last = Resp("none", 0, FALSE)
       /\ lastDl = IF present THEN "ok" ELSE "failed"
       /\ NoBypass
       /\ NoRecovery

NextBlocked ==
  \/ CaptureArrive
  \/ Capture(StoreBodies)
  \/ Download

SpecBlocked == InitBlocked /\ [][NextBlocked]_vars

\* largest number of requests that change the store while it is listed
MaxList == 2

\* captures of two pages, as video or image ("" is a missing field)
ListBodies ==
  [title : Titles, pageUrl : PageUrls, fileUrl : {F1, ""}, type : Types, cookies : {""}]

InitList ==
  /\ now = 0
  /\ dirsMade = FALSE
  /\ records = <<>>
  /\ files = <<>>
  /\ chunks = <<>>
  /\ capPending = 0
  /\ up = {}
  /\ dl = <<>>
  /\ budget = MaxList
  /\ last = Resp("none", 0, FALSE)
  /\ lastDl = "none"
  /\ NoBypass
  /\ NoRecovery

\* the store listed while captures, their downloads, retries and uploads go on;
\* no DELETE is issued
NextList ==
  \/ CaptureArrive
  \/ Capture(ListBodies)
  \/ Download
  \/ Retry
  \/ UploadRequest
  \/ UploadBody
  \/ \E type \in TypeQueries : \E q \in SearchTerms : ListRecords(type, q)

SpecList == InitList /\ [][NextList]_vars

\* retryRecord calls, one at a time or overlapping, over a store of records
\* whose file is absent (the download failed) or present (an earlier upload),
\* on a disk that may refuse a write
InitPage ==
  \E present \in SUBSET (1..MaxBatch) :
    /\ now = MaxBatch
    /\ dirsMade = TRUE
    /\ records = [i \in 1..MaxBatch |->
                    NewRecord([title |-> <<"a">>, pageUrl |-> BatchPages[i], fileUrl |-> F1,
                               type |-> "video", cookies |-> ""], i)]
    /\ files = [path \in {records[i].backupPath : i \in present} |-> OldBody]
    /\ chunks = <<>>
    /\ capPending = 0
    /\ up = {}
    /\ dl = <<>>
    /\ budget = 0
    /\ last = [Resp("capture", 200, TRUE) EXCEPT !.id = MaxBatch, !.needUpload = TRUE]
    /\ lastDl = "failed"
    /\ NoBypass
    /\ NoRecovery

NextPage ==
  \/ \E i \in DOMAIN records : RetryRecordCall(i)
  \/ Attempt
  \/ DiskError

SpecPage == InitPage /\ [][NextPage]_vars

\* readAllRecords over a log read as text: no file, or any text of up to MaxLog
\* pieces, to which records are appended
RECURSIVE Texts(_)
Texts(n) ==
  IF n = 0 THEN {<<>>} ELSE Texts(n - 1) \cup {Append(c, p) : c \in Texts(n - 1), p \in Pieces}

InitLog ==
  /\ now = 0
  /\ dirsMade = FALSE
  /\ records \in {NoLog} \cup {[present |-> TRUE, text |-> c] : c \in Texts(MaxLog)}
  /\ files = <<>>
  /\ chunks = <<>>
  /\ capPending = 0
  /\ up = {}
  /\ dl = <<>>
  /\ budget = 1
  /\ last = Resp("none", 0, FALSE)
  /\ lastDl = "none"
  /\ NoBypass
  /\ NoRecovery

NextLog ==
  \/ ReadLog
  \/ \E record \in LogRecords : AppendLog(record)

SpecLog == InitLog /\ [][NextLog]_vars

\* largest number of requests sent to a store that holds records
MaxDel == 1

\* the requests that write, over a store of two or three records, the first
\* two captured in the same millisecond (they share an id) and the third
\* later: the last one with its background download under way, the others
\* with or without their file (their downloads have ended)
DelRecords ==
  <<NewRecord([title |-> <<"a">>, pageUrl |-> P1, fileUrl |-> F1, type |-> "video",
               cookies |-> ""], 0),
    NewRecord([title |-> <<"b">>, pageUrl |-> P2, fileUrl |-> F2, type |-> "video",
               cookies |-> ""], 0),
    NewRecord([title |-> <<"a">>, pageUrl |-> "https://lurl.cc/p3", fileUrl |-> F1,
               type |-> "video", cookies |-> ""], 1)>>

\* captures of a stored page with another file url, and of a new page ("" is a
\* missing field)
DelBodies ==
  [title : Titles, pageUrl : {P1, "https://myppt.cc/p4"}, fileUrl : {F2, ""},
   type : {"video"}, cookies : {""}]

InitDel ==
  \E n \in {2, 3} : \E present \in SUBSET (1..(n - 1)) :
    /\ now = DelRecords[n].id
    /\ dirsMade = TRUE
    /\ records = SubSeq(DelRecords, 1, n)
    /\ files = [path \in {DelRecords[i].backupPath : i \in present} |-> CdnBody]
    /\ chunks = <<>>
    /\ capPending = 0
    /\ up = {}
    /\ dl = <<NewDownload(DelRecords[n], DelRecords[n].fileUrl, DelRecords[n].backupPath,
                          DelRecords[n].pageUrl, "", "capture")>>
    /\ budget = MaxDel
    /\ last = [Resp("capture", 200, TRUE) EXCEPT !.id = DelRecords[n].id, !.needUpload = TRUE]
    /\ lastDl = "failed"
    /\ NoBypass
    /\ NoRecovery

NextDel ==
  \/ Delete
  \/ CaptureArrive
  \/ Capture(DelBodies)
  \/ Download
  \/ Retry
  \/ UploadRequest
  \/ UploadBody

SpecDel == InitDel /\ [][NextDel]_vars

(* ------------------------- record store: capture ---------------------- *)

\* the capture handler runs for body b, from the return of parseBody to its
\* response (a request leaves capPending exactly in that step)
CaptureStep(b) ==
  CaptureInvalid(b) \/ CaptureDuplicate(b) \/ \E t \in ClockReads : CaptureNew(b, t)

\* body b carries title, pageUrl and fileUrl
Complete(b) == b.title # <<>> /\ b.pageUrl # "" /\ b.fileUrl # ""

\* C1: a complete capture whose pageUrl is already stored with its backing file
\* present answers ok with duplicate=true and the stored id, asks for no upload,
\* appends nothing, leaves every record and file as it was and starts no download
C1_DuplicateWithFile ==
  [][capPending' < capPending => \A b \in StoreBodies : \A i \in DOMAIN records :
       (/\ CaptureStep(b)
        /\ Complete(b)
        /\ records[i].pageUrl = b.pageUrl
        /\ records[i].backupPath \in DOMAIN files)
       => /\ last' = [Resp("capture", 200, TRUE) EXCEPT
                        !.duplicate = TRUE, !.existingId = records[i].id]
          /\ ~last'.needUpload
          /\ records' = records
          /\ files' = files
          /\ dl' = dl]_vars

C1_Witness ==
  /\ last.op = "capture" /\ last.status = 200 /\ last.duplicate /\ ~last.needUpload
  /\ \E i \in DOMAIN records :
       records[i].id = last.existingId /\ records[i].backupPath \in DOMAIN files

\* C2: a complete capture whose pageUrl is stored with its backing file absent
\* changes at most the fileUrl of that one record (to the submitted one), keeps
\* every other record and field, adds no record, and answers duplicate=true with
\* the stored id and needUpload=true
C2_DuplicateWithoutFile ==
  [][capPending' < capPending => \A b \in StoreBodies : \A i \in DOMAIN records :
       (/\ CaptureStep(b)
        /\ Complete(b)
        /\ records[i].pageUrl = b.pageUrl
        /\ records[i].backupPath \notin DOMAIN files)
       => /\ last' = [Resp("capture", 200, TRUE) EXCEPT
                        !.duplicate = TRUE, !.id = records[i].id, !.needUpload = TRUE]
          /\ Len(records') = Len(records)
          /\ records'[i] = [records[i] EXCEPT !.fileUrl = b.fileUrl]
          /\ \A j \in DOMAIN records : j # i => records'[j] = records[j]]_vars

\* C3: no two stored records carry the same pageUrl, whatever the interleaving
\* of the capture requests
C3_PageUrlUnique ==
  \A i, j \in DOMAIN records : records[i].pageUrl = records[j].pageUrl => i = j

C3_Witness == capPending = 2 /\ Len(records) = 1

\* C4: a capture that lacks title, pageUrl or fileUrl answers 400 with ok=false
\* and touches neither the log, nor a file or directory, nor starts a download
C4_MissingFieldRejected ==
  [][capPending' < capPending => \A b \in StoreBodies :
       (CaptureStep(b) /\ ~Complete(b))
       => /\ last' = Resp("capture", 400, FALSE)
          /\ records' = records
          /\ files' = files
          /\ chunks' = chunks
          /\ dirsMade' = dirsMade
          /\ dl' = dl]_vars

C4_Witness ==
  /\ last.op = "capture" /\ last.status = 400 /\ ~last.ok
  /\ records = <<>> /\ ~dirsMade /\ budget = MaxReq - 1

(* --------------------------- direct downloader ------------------------ *)

\* the downloadFile call i returns false in this step
DlFails(i) ==
  /\ DlFetchFail(i) \/ DlStreamError(i)
  /\ Len(dl') < Len(dl)
  /\ lastDl' = "failed"

\* C6: when every strategy fails, a failure while streaming to disk included,
\* downloadFile returns false and a destination that was absent when it was
\* called is still absent
C6_FailureLeavesNoFile ==
  [][\A i \in DOMAIN dl :
       (DlFails(i) /\ dl[i].absentBefore) => dl[i].dest \notin DOMAIN files']_vars

\* the referer that belongs to the CDN of a file url
CanonicalReferer(url) == IF url = F2 THEN "https://myppt.cc/" ELSE "https://lurl.cc/"

\* the order the strategies are to be tried in, by name
ExpectedOrder(cookies, pageUrl) ==
  (IF cookies # "" THEN <<"cookie+referer">> ELSE <<>>)
  \o <<"referer-only">>
  \o (IF pageUrl # "" THEN <<"pageUrl-referer">> ELSE <<>>)

\* the requests call t has issued are the first ones of the expected order, one
\* per strategy, each with the headers of its strategy
InOrder(t) ==
  /\ Len(t.tried) = t.k
  /\ Len(t.tried) <= Len(ExpectedOrder(t.cookies, t.pageUrl))
  /\ \A j \in DOMAIN t.tried :
       /\ t.tried[j].name = ExpectedOrder(t.cookies, t.pageUrl)[j]
       /\ t.tried[j].cookie = (IF t.tried[j].name = "cookie+referer" THEN t.cookies ELSE "")
       /\ t.tried[j].referer = (IF t.tried[j].name = "pageUrl-referer" THEN t.pageUrl
                                ELSE CanonicalReferer(t.url))

\* C7: the strategies are tried in the order cookie + CDN referer (only with
\* cookies), CDN referer only, page referer (only with a page url), each at most
\* once; a strategy is tried only in the step in which the one before it failed,
\* and none after a strategy succeeded
C7_StrategyOrder ==
  [][/\ \A i \in DOMAIN dl : InOrder(dl[i])
     /\ \A i \in DOMAIN dl' : InOrder(dl'[i])
     /\ \A i \in DOMAIN dl :
          (i \in DOMAIN dl' /\ dl'[i].tried # dl[i].tried)
          => /\ DlFetchFail(i) \/ DlStreamError(i)
             /\ dl'[i].tried = Append(dl[i].tried, dl'[i].tried[Len(dl'[i].tried)])
     /\ \A i \in DOMAIN dl : DlDone(i) => Len(dl') < Len(dl) /\ lastDl' = "ok"]_vars

C7_Witness ==
  \E i \in DOMAIN dl :
    /\ dl[i].cookies # "" /\ dl[i].pageUrl # ""
    /\ Len(dl[i].tried) = 3
    /\ dl[i].phase = "stream"

(* ------------------------- chunked upload assembler ------------------- *)

\* the chunk directory of upload u once its payload is stored
DirWith(u, payload) ==
  [x \in DOMAIN ChunkDir(u.id) \cup {u.chunkIndex} |->
     IF x = u.chunkIndex THEN payload ELSE ChunkDir(u.id)[x]]

\* the payloads of chunks 0 .. n-1, joined in index order
RECURSIVE JoinInOrder(_, _)
JoinInOrder(dir, n) == IF n = 0 THEN <<>> ELSE JoinInOrder(dir, n - 1) \o dir[n - 1]

\* C8: whatever the order and the interleaving in which the chunks of an upload
\* arrive, the request that completes the set 0 .. N-1 leaves at the record's
\* destination the concatenation of the N chunks in index order
C8_AssembledInIndexOrder ==
  [][up' # up => \A u \in up : \A payload \in Payloads :
       (/\ UploadChunk(u, payload)
        /\ DOMAIN DirWith(u, payload) = 0..(u.totalChunks - 1))
       => /\ u.record.backupPath \in DOMAIN files'
          /\ files'[u.record.backupPath] = JoinInOrder(DirWith(u, payload), u.totalChunks)]_vars

\* a two-chunk upload whose chunk 1 arrived before its chunk 0 has been assembled
C8_Witness ==
  /\ last.op = "upload" /\ last.status = 200 /\ last.chunk = 0 /\ last.total = 2
  /\ chunks = <<>>
  /\ \E r \in Range(records) :
       /\ r.backupPath \in DOMAIN files
       /\ Len(files[r.backupPath]) = 2
       /\ files[r.backupPath][1] # files[r.backupPath][2]

\* C9: a chunked upload request writes the destination file only when the number
\* of stored chunks equals the declared total and every index 0 .. total-1 is
\* among them; in every other case the destination is left as it was
C9_WriteOnlyWhenComplete ==
  [][up' # up => \A u \in up : \A payload \in Payloads :
       (UploadChunk(u, payload) /\ files' # files)
       => /\ Cardinality(DOMAIN DirWith(u, payload)) = u.totalChunks
          /\ \A i \in 0..(u.totalChunks - 1) : i \in DOMAIN DirWith(u, payload)]_vars

\* the count matched the declared total while an index was missing: the request
\* failed and wrote nothing
C9_Witness ==
  /\ last.op = "upload" /\ last.status = 500
  /\ files = <<>>
  /\ \E id \in DOMAIN chunks : \E i \in DOMAIN chunks[id] : i >= Cardinality(DOMAIN chunks[id])

(* -------------------- acquisition: file present on success ------------ *)

\* C5: for a record whose backing file is absent when the download is called
\* (and that is not deleted while it runs), a downloadFile call that returns
\* true, whether started by a capture or by POST /api/retry/:id, and a
\* retryRecord call that returns success leave a file at DATA_DIR/backupPath
C5_SuccessMeansFilePresent ==
  [][/\ \A i \in DOMAIN dl :
          (DlDone(i) /\ dl[i].absentBefore /\ ~dl[i].deleted)
          => dl[i].rec.backupPath \in DOMAIN files'
     /\ \A a \in DOMAIN att :
          (AttClose(a) /\ att[a].result = "success" /\ att[a].absentBefore /\ ~att[a].deleted)
          => att[a].rec.backupPath \in DOMAIN files']_vars

\* a bypass call and a direct download for the same record, both started while
\* the file was absent, have both reported success
C5_Witness ==
  /\ lastDl = "ok"
  /\ \E a \in DOMAIN att :
       /\ att[a].pc = "done" /\ att[a].result = "success"
       /\ att[a].absentBefore /\ ~att[a].deleted
       /\ att[a].rec.backupPath \in DOMAIN files
       /\ att[a].rec \in Range(records)

(* ------------------------------ batchRetry ---------------------------- *)

\* C10: a failure that belongs to one record (navigation, in-page fetch, an
\* undersized body, an error while its page is opened or closed) never aborts
\* the batch: batchRetry does not reject, and when it has returned every record
\* has been attempted and total is the number of records
C10_RecordFailureNeverAborts ==
  (\A a \in DOMAIN att : att[a].why # "launch")
  => /\ batch.pc # "thrown"
     /\ batch.pc = "returned"
        => /\ batch.total = Len(batch.records)
           /\ \A k \in 1..Len(batch.records) :
                \E a \in DOMAIN att : att[a].idx = k /\ att[a].pc \in {"done", "thrown"}

\* the group of the batch that position idx (1-based) belongs to: records are
\* sliced at 0, concurrency, 2 * concurrency, ...
GroupOf(idx) == (idx - 1) \div batch.concurrency

\* the attempt of a record has finished: its call has returned
Finished(a) == att[a].pc = "done"

\* C11: batchRetry takes the records in consecutive groups of `concurrency`
\* (the last one possibly smaller): while it runs, the attempts started are
\* exactly those of the records up to the end of the running group, in input
\* order, and an attempt of a later group exists only when every attempt of
\* every earlier group has finished
C11_GroupsInSequence ==
  batch.pc # "idle"
  => /\ \A a \in DOMAIN att : att[a].idx = a /\ att[a].rec = batch.records[a]
     /\ batch.records # <<>>
        => /\ (batch.lo - 1) % batch.concurrency = 0
           /\ Len(att) = IF batch.lo + batch.concurrency - 1 < Len(batch.records)
                         THEN batch.lo + batch.concurrency - 1
                         ELSE Len(batch.records)
     /\ \A a, b \in DOMAIN att : GroupOf(a) < GroupOf(b) => Finished(a)

\* a second group is running, its second record has finished before its first,
\* and the batch was called with a group size of two
C11_Witness ==
  /\ batch.pc = "running"
  /\ batch.concurrency = 2
  /\ batch.lo = 3
  /\ Len(att) >= 3
  /\ att[1].pc = "done" /\ att[2].pc = "done"
  /\ att[3].pc # "done"
  /\ Len(batch.progress) = 2 /\ batch.progress[1][3] = batch.records[2].id

(* --------------------------- browser lifecycle ------------------------ *)

\* C12: at most one launched browser process is alive at any time, and every
\* downloadInPageContext call that has its browser uses the instance the
\* module's handle names
C12_SingleBrowser ==
  /\ Cardinality(alive) <= 1
  /\ \A a \in DOMAIN att :
       (att[a].pc \in {"newpage", "nav", "eval"} /\ browser # 0) => att[a].b = browser

\* C13: when batchRetry has returned, every browser process launched during
\* the batch has been closed and the module's handle is null
C13_ClosedAfterBatch ==
  batch.pc = "returned" => (alive = {} /\ browser = 0)

(* --------------------------- batchRetry: tally ------------------------ *)

\* the batchRetry call has ended, by returning or by rejecting, and no attempt
\* it started is still running
BatchOver ==
  /\ batch.pc \in {"returned", "thrown"}
  /\ \A a \in DOMAIN att : att[a].pc \in {"done", "thrown"}

\* C14: onProgress is invoked once per record of the batch, after the record's
\* attempt has finished and with its result, with total = N and with
\* completed = 1, 2, ..., N over the successive invocations
C14_ProgressOncePerRecord ==
  LET pr == batch.progress
      N == Len(batch.records)
  IN /\ \A k \in DOMAIN pr :
          /\ pr[k][1] = k
          /\ pr[k][2] = N
          /\ \E a \in DOMAIN att :
               /\ att[a].rec.id = pr[k][3]
               /\ att[a].pc = "done"
               /\ att[a].result = pr[k][4]
     /\ \A j, k \in DOMAIN pr : pr[j][3] = pr[k][3] => j = k
     /\ BatchOver => \A i \in 1..N : \E k \in DOMAIN pr : pr[k][3] = batch.records[i].id

\* the ids of the records whose attempt has returned success
SucceededIds == {att[a].rec.id : a \in {x \in DOMAIN att : att[x].pc = "done" /\ att[x].result = "success"}}

\* C15: the tally of batchRetry: successCount is the length of successIds at
\* every moment, and when the call has returned total is the number of input
\* records and successIds holds, once each, exactly the ids of the records
\* whose attempt returned success
C15_BatchTally ==
  /\ batch.successCount = Len(batch.successIds)
  /\ batch.pc = "returned"
     => /\ batch.total = Len(batch.records)
        /\ Range(batch.successIds) = SucceededIds
        /\ \A j, k \in DOMAIN batch.successIds :
             batch.successIds[j] = batch.successIds[k] => j = k

\* a batch of three in groups of two has returned: the second record succeeded
\* before the first, the third failed
C15_Witness ==
  /\ batch.pc = "returned"
  /\ batch.concurrency = 2
  /\ Len(batch.records) = 3
  /\ batch.successIds = <<batch.records[2].id, batch.records[1].id>>
  /\ batch.successCount = 2
  /\ batch.total = 3

(* ------------------------ record store: identifiers ------------------- *)

\* C16: no two records of the store have the same id
C16_IdsUnique ==
  \A i, j \in DOMAIN records : records[i].id = records[j].id => i = j

(* ------------------------- Recovery Service --------------------------- *)

\* visitor v has already recovered the slug of url
Recovered(v, url) == Slug(url) \in HistorySlugs(quota[v])

\* this step is a recovery request of visitor v for url, answered in lastRec'
RecoverStep(v, url) ==
  /\ lastRec'.n # lastRec.n
  /\ lastRec'.visitor = v
  /\ lastRec'.url = url

\* C17 as stated: a recovery request for a slug already in the visitor's
\* history returns the backup URL with alreadyRecovered = true and leaves the
\* ledger untouched, whatever quota remains
C17_ReplayAlwaysServed ==
  [][\A v \in Visitors : \A u \in SubmittedUrls :
       (Recovered(v, u) /\ RecoverStep(v, u))
       => /\ lastRec'.ok
          /\ lastRec'.alreadyRecovered
          /\ lastRec'.backupUrl # <<>>
          /\ quota' = quota]_vars

\* C17, amended: a recovery request for a slug already in the visitor's history
\* leaves the ledger untouched, whatever quota remains; it returns the backup
\* URL with alreadyRecovered = true when the slug still matches a record that
\* is not blocked and whose backing file is present, and "no backup" otherwise
C17_ReplayIsFree ==
  [][\A v \in Visitors : \A u \in SubmittedUrls :
       (Recovered(v, u) /\ RecoverStep(v, u))
       => /\ quota' = quota
          /\ IF HasBackup(MatchRecord(records, u))
             THEN /\ lastRec'.ok
                  /\ lastRec'.alreadyRecovered
                  /\ lastRec'.backupUrl = BackupUrl(records[MatchRecord(records, u)])
             ELSE lastRec'.kind = "no_backup"]_vars

\* a visitor with nothing left has been served a slug of the history again,
\* under a URL in another casing than the one recovered first
C17_Witness ==
  /\ lastRec.kind = "ok"
  /\ lastRec.alreadyRecovered
  /\ lastRec.url = "https://lurl.cc/x/P1"
  /\ lastRec.remaining <= 0
  /\ quota[lastRec.visitor].usedCount = 1
  /\ quota[lastRec.visitor].history[1].slug = <<"p", "1">>
  /\ quota[lastRec.visitor].history[1].backupUrl = lastRec.backupUrl

\* what visitor v may still recover: the free and paid allowance not yet used
Left(v) == quota[v].freeQuota + quota[v].paidQuota - quota[v].usedCount

\* C18 as stated: a recovery request for a slug not in the visitor's history,
\* made when nothing remains, fails with quota_exhausted and changes neither
\* the history nor usedCount; no visitor recovers more distinct slugs than the
\* free and paid allowance
C18_ExhaustedAlwaysSignalled ==
  /\ [][\A v \in Visitors : \A u \in SubmittedUrls :
          (~Recovered(v, u) /\ Left(v) <= 0 /\ RecoverStep(v, u))
          => /\ lastRec'.kind = "quota_exhausted"
             /\ quota' = quota]_vars
  /\ [](\A v \in Visitors : Len(quota[v].history) <= quota[v].freeQuota + quota[v].paidQuota)

\* C18, amended: a recovery request for a slug that is not in the visitor's
\* history and that matches a record which is not blocked and whose backing
\* file is present, made when nothing remains, fails with quota_exhausted;
\* whatever the slug matches, such a request changes neither the history nor
\* usedCount; no visitor recovers more distinct slugs than the free and paid
\* allowance (three with freeQuota = 3 and paidQuota = 0)
C18_QuotaExhausted ==
  /\ [][\A v \in Visitors : \A u \in SubmittedUrls :
          (~Recovered(v, u) /\ Left(v) <= 0 /\ RecoverStep(v, u))
          => /\ quota' = quota
             /\ ~lastRec'.ok
             /\ lastRec'.kind = IF HasBackup(MatchRecord(records, u))
                                THEN "quota_exhausted" ELSE "no_backup"]_vars
  /\ [](\A v \in Visitors : Len(quota[v].history) <= quota[v].freeQuota + quota[v].paidQuota)

\* a visitor with freeQuota = 3 and paidQuota = 0 has recovered three distinct
\* slugs and the request for a fourth has failed with quota_exhausted
C18_Witness ==
  /\ lastRec.kind = "quota_exhausted"
  /\ quota[lastRec.visitor].freeQuota = 3
  /\ quota[lastRec.visitor].paidQuota = 0
  /\ quota[lastRec.visitor].usedCount = 3
  /\ Cardinality(HistorySlugs(quota[lastRec.visitor])) = 3
  /\ Slug(lastRec.url) \notin HistorySlugs(quota[lastRec.visitor])

\* C19: for every visitor, usedCount is the number of distinct slugs of the
\* history (which lists no slug twice); it never decreases, and it changes only
\* by one, in a successful recovery by that visitor of a slug that was not in
\* the history before
C19_UsedCountCountsSlugs ==
  /\ [](\A v \in Visitors :
          /\ quota[v].usedCount = Cardinality(HistorySlugs(quota[v]))
          /\ quota[v].usedCount = Len(quota[v].history))
  /\ [][\A v \in Visitors :
          /\ quota'[v].usedCount >= quota[v].usedCount
          /\ quota'[v].usedCount # quota[v].usedCount
             => /\ quota'[v].usedCount = quota[v].usedCount + 1
                /\ RecoverStep(v, lastRec'.url)
                /\ lastRec'.ok /\ ~lastRec'.alreadyRecovered
                /\ ~Recovered(v, lastRec'.url)
                /\ HistorySlugs(quota'[v]) = HistorySlugs(quota[v]) \cup {Slug(lastRec'.url)}]_vars

\* a visitor has recovered two slugs and then one of them again, at no charge
C19_Witness ==
  /\ lastRec.kind = "ok"
  /\ lastRec.alreadyRecovered
  /\ quota[lastRec.visitor].usedCount = 2
  /\ Cardinality(HistorySlugs(quota[lastRec.visitor])) = 2
  /\ lastRec.remaining = 1

\* the records whose pageUrl has the slug of url and that are not blocked
Unblocked(url) ==
  {i \in DOMAIN records : Slug(records[i].pageUrl) = Slug(url) /\ ~records[i].blocked}

\* the slug of url matches no record, only blocked records, or its first
\* unblocked record has no backing file
NothingToServe(url) ==
  \/ Unblocked(url) = {}
  \/ \E i \in Unblocked(url) :
       /\ \A j \in Unblocked(url) : i <= j
       /\ records[i].backupPath \notin DOMAIN files

\* C20: a recovery request whose slug matches no record, only a blocked record,
\* or a record whose backing file is absent is answered "no backup" and leaves
\* the ledger unchanged; a backup URL that is returned is that of a record of
\* that slug which is not blocked and whose file is present
C20_NoBackupLeavesLedger ==
  [][\A v \in Visitors : \A u \in SubmittedUrls :
       RecoverStep(v, u)
       => /\ NothingToServe(u)
             => /\ lastRec'.kind = "no_backup"
                /\ ~lastRec'.ok
                /\ lastRec'.backupUrl = <<>>
                /\ quota' = quota
          /\ lastRec'.backupUrl # <<>>
             => \E i \in Unblocked(u) :
                  /\ lastRec'.backupUrl = BackupUrl(records[i])
                  /\ records[i].backupPath \in DOMAIN files]_vars

\* a visitor who still has quota asks for a slug recovered before whose record
\* has been blocked since, and is told there is no backup
C20_Witness ==
  /\ lastRec.kind = "no_backup"
  /\ \E i \in DOMAIN records :
       /\ records[i].blocked
       /\ Slug(records[i].pageUrl) = Slug(lastRec.url)
       /\ records[i].backupPath \in DOMAIN files
  /\ Slug(lastRec.url) \in HistorySlugs(quota[lastRec.visitor])
  /\ Left(lastRec.visitor) > 0

(* ---------------------- capture of blocked content -------------------- *)

\* C21: a complete capture whose fileUrl is that of a record marked blocked is
\* answered ok with blocked = true and without needUpload, appends no record
\* and starts no download
C21_BlockedCaptureRefused ==
  [][capPending' < capPending => \A b \in StoreBodies :
       (/\ CaptureStep(b)
        /\ Complete(b)
        /\ \E i \in DOMAIN records : IsBlocked(records[i]) /\ records[i].fileUrl = b.fileUrl)
       => /\ last'.ok
          /\ "blocked" \in DOMAIN last' /\ last'.blocked
          /\ ~last'.needUpload
          /\ Len(records') = Len(records)
          /\ dl' = dl]_vars

(* --------------------------- records listing -------------------------- *)

\* GET /api/records is answered in this step
ListStep == last' # last /\ last'.op = "records"

\* bodies that arrive whole: the CDN's, a single upload's, an assembled upload's
WholeBodies ==
  {CdnBody} \cup Payloads
  \cup UNION {{ConcatChunks(d, 0, n) : d \in [0..(n - 1) -> Payloads]} : n \in 1..MaxChunks}

\* a file has arrived for the record at this path, or is arriving
FileArrived(path) ==
  \/ files[path] \in WholeBodies
  \/ \E i \in DOMAIN dl : dl[i].dest = path /\ dl[i].phase = "stream"

\* C23: a captured record is listed by GET /api/records with fileExists = false
\* for as long as no file has arrived for it: failed downloads, failed retries,
\* failed or incomplete uploads and further captures leave it in the store and
\* leave it listed as missing
C23_ListedMissingUntilFileArrives ==
  [][ListStep =>
       /\ \A i \in DOMAIN records :
            \E k \in DOMAIN Listing(records, "", "") :
              /\ Listing(records, "", "")[k].id = records[i].id
              /\ Listing(records, "", "")[k].pageUrl = records[i].pageUrl
       /\ \A k \in DOMAIN last'.records :
            /\ last'.records[k].fileExists = (last'.records[k].backupPath \in DOMAIN files)
            /\ last'.records[k].fileExists => FileArrived(last'.records[k].backupPath)]_vars

(* ------------------------------ open pages ---------------------------- *)

\* the page of attempt a is open: browser.newPage() has resolved and
\* page.close() has not (a close that rejected may have left the page open)
PageOpen(a) == att[a].page = "open"

OpenPages == {a \in DOMAIN att : PageOpen(a)}

\* C24: from the call of batchRetry on, the number of browser pages that are
\* open at the same time never exceeds the concurrency argument
C24_OpenPagesBounded ==
  batch.pc # "idle" => Cardinality(OpenPages) <= batch.concurrency

\* a batch called with a group size of two has two pages open while its first
\* group runs, and three records to go through
C24_Witness ==
  /\ batch.pc = "running"
  /\ batch.concurrency = 2
  /\ Len(batch.records) = 3
  /\ att[1].pc = "eval" /\ att[2].pc = "nav"
  /\ Cardinality(OpenPages) = 2

(* ------------------------ downloadInPageContext ----------------------- *)

\* C25: a downloadInPageContext call that has returned, with success or with
\* failure (navigation error, challenge timeout, fetch error, undersized
\* payload, disk write error), has closed the page it opened; a call that
\* rejected otherwise than by page.close() itself had opened no page
C25_PageClosedOnEveryPath ==
  \A a \in DOMAIN att :
    /\ att[a].pc = "done" => att[a].page = "closed"
    /\ (att[a].pc = "thrown" /\ att[a].why # "close") => att[a].page = "none"

\* a call has returned failure after a write that the disk refused once the
\* file was created, and its page is closed
C25_Witness ==
  \E a \in DOMAIN att :
    /\ att[a].pc = "done" /\ att[a].result = "failure" /\ att[a].page = "closed"
    /\ att[a].absentBefore
    /\ Exists(RetryDest(att[a].rec)) /\ files[RetryDest(att[a].rec)] = <<>>

\* the call of attempt a has completed, by returning or by rejecting
Completed(a) == att[a].pc \in {"done", "thrown"}

\* the destination of attempt a holds something the call has put there
Wrote(a) ==
  /\ Exists(RetryDest(att[a].rec))
  /\ att[a].absentBefore \/ files[RetryDest(att[a].rec)] # OldBody

\* C26: downloadInPageContext writes the destination file only when it returns
\* success: a call that has completed and has put something at its destination
\* has returned {success: true} (so a 2xx body under 1000 bytes, reported as a
\* failure, writes nothing)
C26_WritesOnlyOnSuccess ==
  \A a \in DOMAIN att :
    (Completed(a) /\ Wrote(a)) => (att[a].pc = "done" /\ att[a].result = "success")

\* what downloadInPageContext returns when the in-page fetch ends as f
FetchVerdict(f) ==
  IF f.kind = "ok" /\ Len(f.body) >= MinSize THEN "success" ELSE "failure"

C28_SlicingAdvances ==
  [][(batch.pc = "slicing" /\ batch'.slices > batch.slices) => batch'.lo > batch.lo]_vars

(* ------------------------ upload: chunk directory --------------------- *)

\* upload u with this payload completes the chunks 0 .. total-1 of its record
Completes(u, payload) == DOMAIN DirWith(u, payload) = 0..(u.totalChunks - 1)

\* C29: the request that assembles a chunked upload leaves no chunk directory
\* and no chunk file of the record; until then every chunk received is stored
\* under its declared index (the latest payload of each index), and no other
\* request touches a chunk file
C29_ChunksKeptUntilAssembled ==
  [][/\ \A u \in up \ up' : \A payload \in Payloads :
          UploadChunk(u, payload)
          => /\ IF Completes(u, payload)
                THEN u.id \notin DOMAIN chunks'
                ELSE u.id \in DOMAIN chunks' /\ chunks'[u.id] = DirWith(u, payload)
             /\ \A id \in DOMAIN chunks \ {u.id} :
                  id \in DOMAIN chunks' /\ chunks'[id] = chunks[id]
     /\ chunks' # chunks
        => \E u \in up \ up' : \E payload \in Payloads : UploadChunk(u, payload)]_vars

\* a two-chunk upload whose chunks arrived in index order has been assembled
\* and its directory is gone
C29_Witness ==
  /\ last.op = "upload" /\ last.ok /\ last.chunk = 1 /\ last.total = 2
  /\ DOMAIN chunks = {}
  /\ up = {}
  /\ \E r \in Range(records) : Exists(r.backupPath) /\ Len(files[r.backupPath]) = 2

(* --------------------------- upload: answers -------------------------- *)

\* C30: an upload for a stored record without both chunk markers puts exactly
\* its payload at the record's destination, whatever was there, touches no
\* chunk directory and is answered {ok: true, size} with the payload's length;
\* an upload with both markers is answered {ok: true, chunk, total} with the
\* declared index and total
C30_UploadAnswers ==
  [][\A u \in up \ up' : \A payload \in Payloads :
       /\ UploadSingle(u, payload)
          => /\ DOMAIN files' = DOMAIN files \cup {UploadDest(u.record)}
             /\ \A path \in DOMAIN files' :
                  files'[path] = IF path = UploadDest(u.record) THEN payload ELSE files[path]
             /\ chunks' = chunks
             /\ last'.status = 200 /\ last'.ok /\ last'.size = Len(payload)
       /\ UploadChunk(u, payload)
          => /\ last'.status = 200 /\ last'.ok
             /\ last'.chunk = u.chunkIndex /\ last'.total = u.totalChunks]_vars

(* ---------------------------- readAllRecords -------------------------- *)

\* positions i and j of text c are on the same line
SameLine(c, i, j) ==
  \A k \in 1..Len(c) : ((i <= k /\ k <= j) \/ (j <= k /\ k <= i)) => c[k].t # "nl"

\* position i holds the JSON text of a record and its line holds nothing else
\* but blanks: the line is well-formed
WellFormedAt(c, i) ==
  /\ c[i].t = "json"
  /\ \A j \in 1..Len(c) : (j # i /\ c[j].t # "nl" /\ SameLine(c, i, j)) => c[j].t = "sp"

\* the records of the well-formed lines from position i on, in file order
RECURSIVE RecordsFrom(_, _)
RecordsFrom(c, i) ==
  IF i > Len(c) THEN <<>>
  ELSE (IF WellFormedAt(c, i) THEN c[i].v ELSE <<>>) \o RecordsFrom(c, i + 1)

\* C31: readAllRecords returns the records of the well-formed lines of the
\* log, in file order, whatever malformed, blank and empty lines stand between
\* them, and the empty list when there is no log file
C31_ReadAllSkipsMalformed ==
  [][(last' # last /\ last'.op = "readAllRecords")
     => last'.result = IF records.present THEN RecordsFrom(records.text, 1) ELSE <<>>]_vars

\* a log that ended in a line cut short, to which a record has then been
\* appended, has been read: the record of the first line is returned, the cut
\* line with the appended text is skipped
C31_Witness ==
  /\ last.op = "readAllRecords"
  /\ records.present
  /\ Len(records.text) = 5
  /\ records.text[1].t = "json" /\ records.text[2].t = "nl"
  /\ records.text[3].t = "cut" /\ records.text[4].t = "json" /\ records.text[5].t = "nl"
  /\ last.result = records.text[1].v

(* ------------------------ DELETE /api/records/:id --------------------- *)

\* what identifies a stored record: everything but the fileUrl a later capture
\* may refresh
Identity(r) == <<r.id, r.title, r.pageUrl, r.type, r.backupPath>>

\* C32: DELETE for a stored id removes from the log the records with that id
\* and no other, keeps the others as they are and in their order, and removes
\* the backing file of the record it found and no other file; for an unknown id
\* it answers 404 and changes neither the log nor a file; no other request
\* removes, reorders or replaces a record
C32_DeleteRemovesExactly ==
  [][/\ \A id \in IdInputs :
          /\ DeleteRecord(id)
             => /\ records' = SelectSeq(records, LAMBDA r : r.id # id)
                /\ Len(records') < Len(records)
                /\ last'.status = 200 /\ last'.ok
                /\ \E i \in DOMAIN records :
                     /\ records[i].id = id
                     /\ \A j \in 1..(i - 1) : records[j].id # id
                     /\ DOMAIN files' = DOMAIN files \ {records[i].backupPath}
                /\ \A path \in DOMAIN files' : files'[path] = files[path]
          /\ DeleteUnknown(id)
             => /\ last'.status = 404 /\ ~last'.ok
                /\ records' = records /\ files' = files /\ chunks' = chunks
     /\ (\A id \in IdInputs : ~DeleteRecord(id))
        => /\ Len(records') >= Len(records)
           /\ \A i \in DOMAIN records : Identity(records'[i]) = Identity(records[i])]_vars

\* the DELETE of the id that two records share has removed both and the file
\* of the first; the file of the second and the third record with its file are
\* still there
C32_Witness ==
  /\ last.op = "delete" /\ last.status = 200
  /\ Len(records) = 1 /\ records[1] = DelRecords[3]
  /\ DOMAIN files = {DelRecords[2].backupPath, DelRecords[3].backupPath}
  /\ files[DelRecords[3].backupPath] = CdnBody

(* ----------------------- record store: backing files ------------------ *)

\* C33: no two records of the store have the same backupPath
C33_BackupPathsUnique ==
  \A i, j \in DOMAIN records : records[i].backupPath = records[j].backupPath => i = j

(* ------------------- chunked upload: a new attempt -------------------- *)

\* C34: an attempt that consists of one chunk, index 0 of a total of 1, is
\* complete with that chunk whatever an earlier, abandoned attempt left behind:
\* the request assembles the destination, and the file is that chunk alone
C34_NewAttemptAlone ==
  [][\A u \in up : \A payload \in Payloads :
       (UploadChunk(u, payload) /\ u.chunkIndex = 0 /\ u.totalChunks = 1)
       => /\ UploadDest(u.record) \in DOMAIN files'
          /\ files'[UploadDest(u.record)] = payload
          /\ u.id \notin DOMAIN chunks']_vars

(* ------------------ uploads and the background download --------------- *)

\* a complete file as an upload wrote it: upload payloads only, which no
\* download writes
Uploaded(path) ==
  /\ Exists(path)
  /\ files[path] # <<>>
  /\ \A k \in DOMAIN files[path] : <<files[path][k]>> \in Payloads

\* C35: once an upload has written a record's complete file, no step of the
\* background download that the record's capture started changes that file
C35_DownloadSparesUploadedFile ==
  [][\A i \in DOMAIN dl :
       (/\ dl[i].origin = "capture"
        /\ Uploaded(dl[i].dest)
        /\ DlFetchFail(i) \/ DlFetchOk(i) \/ DlWrite(i) \/ DlStreamError(i) \/ DlDone(i))
       => /\ Exists(dl[i].dest)'
          /\ files'[dl[i].dest] = files[dl[i].dest]]_vars

(* --------------------- files of deleted records ----------------------- *)

\* C36: no step creates a file under a path that is the backupPath of no
\* stored record (a download or an upload that outlives its record's delete
\* writes nothing)
C36_NoFileWithoutRecord ==
  [][\A path \in DOMAIN files' \ DOMAIN files :
       \E i \in DOMAIN records' : records'[i].backupPath = path]_vars

(* -------------------- batchRetry: overlapping calls ------------------- *)

\* the first batchRetry call has an attempt under way on browser b, or a group
\* it has not started
BatchBusy(b) ==
  /\ batch.pc = "running"
  /\ \/ \E a \in DOMAIN att : InGroup(a) /\ att[a].b = b /\ att[a].pc \notin {"done", "thrown"}
     \/ batch.lo + batch.concurrency <= Len(batch.records)

\* the second batchRetry call has its attempt under way on browser b
OverlapBusy(b) ==
  /\ batch.other.pc = "running"
  /\ att[batch.other.a].b = b
  /\ att[batch.other.a].pc \notin {"done", "thrown"}

\* C37: the closeBrowser at the end of one batchRetry call closes no browser
\* on which the other call has an attempt under way or records yet to process
C37_CloseSparesOtherBatch ==
  [][/\ (batch.pc # "closing" /\ batch'.pc = "closing") => ~OverlapBusy(batch'.closing)
     /\ (batch.other.pc # "closing" /\ batch'.other.pc = "closing")
        => ~BatchBusy(batch'.other.closing)]_vars

(* --------------------- chunked upload: redelivery --------------------- *)

\* upload u carries a chunk index that its record's directory already holds
Redelivers(u) == u.id \in DOMAIN chunks /\ u.chunkIndex \in DOMAIN chunks[u.id]

\* C38: a chunk whose index was already received for an upload not yet
\* assembled replaces the payload stored under that index and nothing else,
\* leaves the number of chunks received as it was, and assembles only when
\* every index 0 .. total-1 is present
C38_RedeliveryKeepsCount ==
  [][\A u \in up \ up' : \A payload \in Payloads :
       (UploadChunk(u, payload) /\ Redelivers(u))
       => IF u.id \in DOMAIN chunks'
          THEN /\ DOMAIN chunks'[u.id] = DOMAIN chunks[u.id]
               /\ \A k \in DOMAIN chunks[u.id] :
                    chunks'[u.id][k] = IF k = u.chunkIndex THEN payload ELSE chunks[u.id][k]
               /\ files' = files
          ELSE /\ \A k \in 0..(u.totalChunks - 1) : k \in DOMAIN chunks[u.id]
               /\ Cardinality(DOMAIN chunks[u.id]) = u.totalChunks
               /\ files'[UploadDest(u.record)]
                    = ConcatChunks(Put(chunks[u.id], u.chunkIndex, payload), 0, u.totalChunks)]_vars

\* every request has been answered, the last one a delivery of chunk 0 of 2
\* (after an earlier delivery of that chunk): the directory holds one chunk
\* file, with the payload delivered last, and no file has been assembled
C38_Witness ==
  /\ budget = 0 /\ up = {}
  /\ last.op = "upload" /\ last.ok /\ last.chunk = 0 /\ last.total = 2
  /\ \E id \in DOMAIN chunks : DOMAIN chunks[id] = {0} /\ chunks[id][0] = <<2>>
  /\ files = <<>>

(* ------------------------- upload: refusals --------------------------- *)

\* the step leaves every file, every chunk directory and the record log as
\* they were
WritesNothing == files' = files /\ chunks' = chunks /\ records' = records

\* C39: an upload without record id is answered 400, one whose id matches no
\* record 404, one with an empty body 400, each with ok = false; and a step
\* that answers an upload with 400 or 404 writes no destination file, no chunk
\* file and no chunk directory, and leaves the record log unchanged
C39_RefusedUploadWritesNothing ==
  [][/\ UploadNoId => (last'.status = 400 /\ ~last'.ok /\ WritesNothing)
     /\ \A id \in IdInputs :
          UploadUnknown(id) => (last'.status = 404 /\ ~last'.ok /\ WritesNothing)
     /\ \A u \in up :
          UploadEmpty(u) => (last'.status = 400 /\ ~last'.ok /\ WritesNothing)
     /\ (<<budget, up>>' # <<budget, up>> /\ last'.op = "upload" /\ last'.status \in {400, 404})
        => (~last'.ok /\ WritesNothing)]_vars

\* an upload for an id that matches no record has been answered 404 after a
\* chunk of the stored record was received: the chunk is there, and no file
C39_Witness ==
  /\ last.op = "upload" /\ last.status = 404 /\ ~last.ok
  /\ \E id \in DOMAIN chunks : DOMAIN chunks[id] = {0}
  /\ files = <<>>
  /\ Len(records) = 1

====
